---- MODULE Spec2Model ----
(***************************************************************************)
(* Crawl orchestration of jmm2020ai_deepcrawl: the DeepCrawler engine      *)
(* (verify_links, crawl_many, _process_page, the rate limiter) of          *)
(* src/core/master_crawl.py and the job state machine of                   *)
(* src/api/api_bridge.py.                                                  *)
(*                                                                         *)
(* The specifications of the module:                                      *)
(*   Spec      one thread calling verify_links on one engine;              *)
(*   SpecMany  one crawl_many run: pool workers, rate limiter, recursion;  *)
(*   SpecRate  the rate limiter of crawl_many alone, called at any times;  *)
(*   SpecJob   the jobs of the API bridge (process_crawl,                  *)
(*             process_multi_crawl, JobState).                             *)
(*   SpecChunk        one call of _chunk_markdown;                         *)
(*   SpecDomainCheck  one call of the domain check of _process_page;       *)
(*   SpecLimit        one run of the truncation to max_pages;              *)
(*   SpecSitemap      one call of parse_sitemap;                           *)
(*   SpecSelectors    one call of get_selectors_for_url;                   *)
(*   SpecManyDeep     crawl_many with one seed, to a greater depth;        *)
(*   SpecLive         Spec with the running thread treated fairly;         *)
(*   SpecRaise        Spec with calls that end in an exception;            *)
(*   SpecWeb          one call of verify_links on a fixed web;             *)
(*   SpecLog          one job's log and its WebSocket subscribers.         *)
(*   SpecExtract      one page through _extract_content;                   *)
(*   SpecEmbedding    one vector through _get_embedding or pad_embedding;  *)
(*   SpecImport       insert_site_page, and one run of process_json_file.  *)
(***************************************************************************)
EXTENDS Integers, Sequences, FiniteSets, TLC

\* ------------------------------------------------------------------ bounds
MaxDepth == 2      \* largest max_depth a caller passes
MaxLinks == 2      \* anchors on one fetched page
MaxCalls == 2      \* top-level verify_links calls on one engine
MaxSeeds == 2      \* length of the urls list given to crawl_many
MaxWorkers == 2    \* largest max_concurrent_requests
MaxManyDepth == 1  \* largest max_depth given to crawl_many
MaxTicks == 2      \* clock readings after the first in a crawl_many run
MaxRateTicks == 4  \* clock readings after the first, rate limiter alone
MaxLedger == 5     \* entries of the rate limiter's ledger, rate limiter alone
MaxJobs == 1       \* jobs submitted to the API bridge
MaxSitemap == 2    \* URLs a sitemap yields
MaxConnections == 1 \* sockets connected to one job at a time
MaxText == 6       \* characters of a markdown text
MaxChunkSize == 3  \* largest max_chunk_size
MaxAllowed == 1    \* entries of an allowed_domains list checked on its own
MaxLimit == 3      \* largest max_pages given to the truncation
MaxLocs == 2       \* entries of one sitemap document
MaxNesting == 2    \* calls of parse_sitemap within one another the interpreter allows
MaxDeepDepth == 2  \* largest max_depth given to crawl_many with one seed
MaxOut == 2        \* links of one page of a fixed web
MaxHops == 2       \* largest max_depth given to verify_links on a fixed web
MaxSockets == 2    \* WebSocket clients of the job whose log is followed
MaxMessages == 2   \* progress messages generated for that job
MaxParts == 2      \* pieces of the path of a URL given to get_selectors_for_url
MaxVector == 5     \* values of a vector the embedder returns
expected_dim == 3  \* the dimension of a stored vector, 1536 in the code
MaxRecords == 2    \* records of a file given to process_json_file
MaxRetries == 2    \* largest retry_count given to process_json_file

\* ------------------------------------------------- program constants
\* Times are in tenths of a second: 1.0 s is 10, 0.1 s is 1.
WINDOW == 10
MIN_REQUEST_INTERVAL == 1

VARIABLES
    visited_urls,     \* DeepCrawler.visited_urls
    results,          \* DeepCrawler.results: its keys, in insertion order
    allowed_domains,  \* DeepCrawler.allowed_domains (None or a list of hosts)
    stack,            \* per thread, the call stack of engine frames
    ret,              \* what the last top-level call of the main thread returned
    out,              \* per thread, the progress messages its last step emitted
    calls,            \* top-level calls made so far
    processed,        \* url -> how often it was handed to _process_page
    run,              \* the current top-level run: seeds, depth, pages handed over
    dropped,          \* per thread, the anchors its last step's link discovery dropped
    queue,            \* crawl_many: seeds submitted and not yet taken by a worker
    pool_size,        \* crawl_many: max_concurrent_requests of the run
    request_times,    \* crawl_many: the rate limiter's ledger
    clock,            \* the last value time() returned
    acquired,         \* rate limiter alone: when wait_for_rate_limit returned normally
    jobs,             \* active_jobs: job id -> JobState
    call,             \* a function called on its own: its name and arguments
    returned          \* what that call returned

engineVars == <<visited_urls, results, allowed_domains>>
ghostVars == <<processed, run>>
poolVars == <<queue, pool_size, request_times, clock, acquired>>
vars == <<visited_urls, results, allowed_domains, stack, ret, out, calls,
          processed, run, dropped, queue, pool_size, request_times, clock,
          acquired, jobs, call, returned>>

\* ------------------------------------------------------------- the web
\* Hosts are sequences of characters, as the code compares them.
HostST == <<"s", ".", "t">>
HostWwwST == <<"w", "w", "w", ".", "s", ".", "t">>
HostSubST == <<"a", ".", "s", ".", "t">>
HostOT == <<"o", ".", "t">>

\* The pages a caller may name as a seed: three hosts of one site (bare,
\* www. and a subdomain) and another site.
URLS == {"https://s.t/", "https://www.s.t/a", "https://a.s.t/b", "https://o.t/"}
\* A binary asset of the site: link discovery knows it by its extension.
ASSETS == {"https://s.t/f.pdf"}

\* urlparse(url).netloc
Netloc(url) ==
    CASE url = "https://s.t/" -> HostST
      [] url = "https://www.s.t/a" -> HostWwwST
      [] url = "https://a.s.t/b" -> HostSubST
      [] url = "https://o.t/" -> HostOT
      [] url = "https://s.t/f.pdf" -> HostST

\* any(absolute_url.lower().endswith(ext) for ext in ['.pdf', ...])
HasAssetExtension(url) == url \in ASSETS

StartsWith(s, p) == Len(s) >= Len(p) /\ SubSeq(s, 1, Len(p)) = p
EndsWith(s, p) == Len(s) >= Len(p) /\ SubSeq(s, Len(s) - Len(p) + 1, Len(s)) = p

WwwPrefix == <<"w", "w", "w", ".">>
\* if domain.startswith('www.'): domain = domain[4:]
StripWww(d) == IF StartsWith(d, WwwPrefix) THEN SubSeq(d, 5, Len(d)) ELSE d

SchemeHttp == <<"h", "t", "t", "p", ":", "/", "/">>
SchemeHttps == <<"h", "t", "t", "p", "s", ":", "/", "/">>

RECURSIVE UpToSlash(_)
UpToSlash(d) ==
    IF d = <<>> \/ Head(d) = "/" THEN <<>> ELSE <<Head(d)>> \o UpToSlash(Tail(d))

\* An entry of allowed_domains given as a URL: urlparse(allowed_domain).netloc
StripScheme(d) ==
    IF StartsWith(d, SchemeHttp) THEN UpToSlash(SubSeq(d, Len(SchemeHttp) + 1, Len(d)))
    ELSE IF StartsWith(d, SchemeHttps)
    THEN UpToSlash(SubSeq(d, Len(SchemeHttps) + 1, Len(d)))
    ELSE d

\* The page-level check of _process_page on the netloc of the URL: www.
\* removed on both sides, the characters compared as they are.
NetlocAllowed(netloc, allowed) ==
    LET domain == StripWww(netloc)
    IN \E k \in 1..Len(allowed) :
          LET allowed_domain == StripWww(StripScheme(allowed[k]))
          IN domain = allowed_domain \/ EndsWith(domain, <<".">> \o allowed_domain)

PageDomainAllowed(url, allowed) == NetlocAllowed(Netloc(url), allowed)

\* Link discovery without its domain filter.
LinkDomainAllowed_Any(url, allowed) == TRUE

\* The check link discovery applies to the netloc of an anchor: the netloc
\* of an entry given as a URL, no www. removal on either side.
LinkNetlocAllowed(netloc, allowed) ==
    \E k \in 1..Len(allowed) :
        LET allowed_domain == StripScheme(allowed[k])
        IN netloc = allowed_domain \/ EndsWith(netloc, <<".">> \o allowed_domain)

LinkDomainAllowed(url, allowed) == LinkNetlocAllowed(Netloc(url), allowed)

LinkKept(url, allowed) == LinkDomainAllowed(url, allowed) /\ ~HasAssetExtension(url)

\* The links list of a page: the anchors kept, in document order.
RECURSIVE DiscoverLinks(_, _)
DiscoverLinks(hrefs, allowed) ==
    IF hrefs = <<>> THEN <<>>
    ELSE (IF LinkKept(Head(hrefs), allowed) THEN <<Head(hrefs)>> ELSE <<>>)
         \o DiscoverLinks(Tail(hrefs), allowed)

SeqsUpTo(S, n) == UNION {[1..k -> S] : k \in 0..n}
Range(s) == {s[k] : k \in 1..Len(s)}

\* What a fetched page can hold as anchors (absolute URLs, document order).
Hrefs == SeqsUpTo(URLS, MaxLinks)

\* --------------------------------------------------------------- values
NoneDomains == [is_none |-> TRUE, list |-> <<>>]
SomeDomains(list) == [is_none |-> FALSE, list |-> list]
\* How an engine is constructed: allowed_domains=None or a list of hosts.
AllowedChoices == {NoneDomains, SomeDomains(<<HostST>>), SomeDomains(<<HostWwwST>>)}

\* A dict is modelled by its keys in insertion order; a page_info lives in the
\* frame that fetched it (no code reads a stored page_info back during a crawl).
EmptyMap == <<>>
Keys(map) == {map[k] : k \in 1..Len(map)}
\* A page_info: None, or a page with its links.
NoPage == [ok |-> FALSE, links |-> <<>>]
PageInfo(links) == [ok |-> TRUE, links |-> links]

Main == 0
Workers == 1..MaxWorkers
Threads == {Main} \cup Workers

\* A frame of verify_links or crawl_single_url: its arguments, its place in
\* the code, the page it fetched with the links its loop has yet to visit,
\* and the page whose link led to the call ("" for a seed).
Frame(fn, url, depth, pc, via) ==
    [fn |-> fn, url |-> url, depth |-> depth, pc |-> pc, page |-> NoPage, via |-> via]

Top(t) == stack[t][Len(stack[t])]
Below(t) == SubSeq(stack[t], 1, Len(stack[t]) - 1)
At(t, fn, pc) == stack[t] # <<>> /\ Top(t).fn = fn /\ Top(t).pc = pc
SetTop(t, f) == [stack EXCEPT ![t] = Append(Below(t), f)]
Pop(t) == [stack EXCEPT ![t] = Below(t)]
Push(t, f, g) == [stack EXCEPT ![t] = Append(Append(Below(t), f), g)]

NoRun == [seeds |-> {}, depth |-> 0, pages |-> {}, fresh |-> TRUE]

\* ------------------------------------------------------------ the engine
InitEngine ==
    /\ visited_urls = {}
    /\ results = EmptyMap
    /\ allowed_domains \in AllowedChoices
    /\ stack = [t \in Threads |-> <<>>]
    /\ ret = "none"
    /\ out = [t \in Threads |-> <<>>]
    /\ calls = 0
    /\ processed = [u \in URLS |-> 0]
    /\ run = NoRun
    /\ dropped = [t \in Threads |-> {}]

InitPool ==
    /\ queue = <<>>
    /\ pool_size = 0
    /\ request_times = <<>>
    /\ clock = 0
    /\ acquired = <<>>

\* A caller invokes verify_links(url, max_depth) on the engine.
CallVerifyLinks(url, max_depth) ==
    /\ dropped' = [dropped EXCEPT ![Main] = {}]
    /\ stack[Main] = <<>>
    /\ calls < MaxCalls
    /\ calls' = calls + 1
    /\ stack' = [stack EXCEPT ![Main] = <<Frame("verify_links", url, max_depth, "enter", "")>>]
    /\ run' = [seeds |-> {url}, depth |-> max_depth, pages |-> {},
               fresh |-> visited_urls = {}]
    /\ ret' = "none"
    /\ out' = [out EXCEPT ![Main] = <<>>]
    /\ UNCHANGED <<engineVars, processed, poolVars, jobs, call, returned>>

\* What a returning frame hands to the main thread's caller.
Returned(t, value) == IF t = Main /\ Len(stack[t]) = 1 THEN value ELSE ret

\* verify_links, lines 109-119: the two early returns, then the progress
\* message of the page.
VerifyLinksReturnsEarly_DepthOnly(f) == f.depth < 0

VerifyLinksReturnsEarly(f) == f.depth < 0 \/ f.url \in visited_urls

\* The progress message sent before the early returns instead of after them.
VerifyLinksEnter_MessageFirst(t) ==
    /\ dropped' = [dropped EXCEPT ![t] = {}]
    /\ At(t, "verify_links", "enter")
    /\ out' = [out EXCEPT ![t] = <<"Processing page">>]
    /\ IF VerifyLinksReturnsEarly(Top(t))
       THEN /\ stack' = Pop(t)
            /\ ret' = IF t = 0 /\ Len(stack[t]) = 1 THEN "empty_map" ELSE ret
       ELSE /\ stack' = SetTop(t, [Top(t) EXCEPT !.pc = "mark"])
            /\ ret' = ret
    /\ UNCHANGED <<engineVars, calls, ghostVars, poolVars, jobs, call, returned>>

VerifyLinksEnter(t) ==
    /\ dropped' = [dropped EXCEPT ![t] = {}]
    /\ At(t, "verify_links", "enter")
    /\ IF VerifyLinksReturnsEarly(Top(t))
       THEN /\ stack' = Pop(t)
            /\ ret' = Returned(t, "empty_map")
            /\ out' = [out EXCEPT ![t] = <<>>]
       ELSE /\ stack' = SetTop(t, [Top(t) EXCEPT !.pc = "mark"])
            /\ ret' = ret
            /\ out' = [out EXCEPT ![t] = <<"Processing page">>]
    /\ UNCHANGED <<engineVars, calls, ghostVars, poolVars, jobs, call, returned>>

\* verify_links, line 121: self.visited_urls.add(url)
VerifyLinksMark(t) ==
    /\ dropped' = [dropped EXCEPT ![t] = {}]
    /\ At(t, "verify_links", "mark")
    /\ visited_urls' = visited_urls \cup {Top(t).url}
    /\ stack' = SetTop(t, [Top(t) EXCEPT !.pc = "process"])
    /\ out' = [out EXCEPT ![t] = <<>>]
    /\ UNCHANGED <<results, allowed_domains, ret, calls, ghostVars, poolVars, jobs, call, returned>>

\* The frame once _process_page has returned page: the caller stores it and
\* loops over its links only when max_depth > 0.
AfterPage(f, page) ==
    [f EXCEPT !.pc = "loop",
              !.page = [page EXCEPT !.links = IF f.depth > 0 THEN @ ELSE <<>>]]

\* self.results[url] = page_info, when page_info is not None
Store(url, page) ==
    IF page.ok /\ url \notin Keys(results) THEN Append(results, url) ELSE results

\* allowed_domains after the first-call initialisation of _process_page
LazyDomains(url) ==
    IF allowed_domains.is_none THEN SomeDomains(<<StripWww(Netloc(url))>>)
    ELSE allowed_domains

\* _process_page, lines 370-405: the call is made, the domain list is
\* initialised when it is None, and a URL outside it is rejected at once.
ProcessPageBegin(t) ==
    /\ dropped' = [dropped EXCEPT ![t] = {}]
    /\ stack[t] # <<>>
    /\ Top(t).pc = "process"
    /\ LET f == Top(t)
           allowed == LazyDomains(f.url)
       IN /\ processed' = [processed EXCEPT ![f.url] = @ + 1]
          /\ run' = [run EXCEPT !.pages = @ \cup {f.url}]
          /\ allowed_domains' = allowed
          /\ IF PageDomainAllowed(f.url, allowed.list)
             THEN /\ stack' = SetTop(t, [f EXCEPT !.pc = "extracting"])
                  /\ out' = [out EXCEPT ![t] = <<"Extracting content">>]
             ELSE /\ stack' = SetTop(t, AfterPage(f, NoPage))
                  /\ out' = [out EXCEPT ![t] = <<"Skipping URL not in allowed domains">>]
    /\ UNCHANGED <<visited_urls, results, ret, calls, poolVars, jobs, call, returned>>

\* _process_page, lines 377-378, with another thread running between the
\* statements: the test `self.allowed_domains is None` has succeeded and the
\* assignment is yet to come. No lock covers the two.
ProcessPageSeesNone(t) ==
    /\ dropped' = [dropped EXCEPT ![t] = {}]
    /\ stack[t] # <<>>
    /\ Top(t).pc = "process"
    /\ allowed_domains.is_none
    /\ processed' = [processed EXCEPT ![Top(t).url] = @ + 1]
    /\ run' = [run EXCEPT !.pages = @ \cup {Top(t).url}]
    /\ stack' = SetTop(t, [Top(t) EXCEPT !.pc = "set_domains"])
    /\ out' = [out EXCEPT ![t] = <<>>]
    /\ UNCHANGED <<engineVars, ret, calls, poolVars, jobs, call, returned>>

\* _process_page, line 378: self.allowed_domains = [domain]
ProcessPageSetDomains(t) ==
    /\ dropped' = [dropped EXCEPT ![t] = {}]
    /\ stack[t] # <<>>
    /\ Top(t).pc = "set_domains"
    /\ allowed_domains' = SomeDomains(<<StripWww(Netloc(Top(t).url))>>)
    /\ stack' = SetTop(t, [Top(t) EXCEPT !.pc = "check"])
    /\ out' = [out EXCEPT ![t] = <<"Setting allowed domain">>]
    /\ UNCHANGED <<visited_urls, results, ret, calls, ghostVars, poolVars, jobs,
                   call, returned>>

\* _process_page, lines 384-401: the check against self.allowed_domains as
\* it is when the loop reads it.
ProcessPageCheck(t) ==
    /\ dropped' = [dropped EXCEPT ![t] = {}]
    /\ stack[t] # <<>>
    /\ Top(t).pc = "check"
    /\ LET f == Top(t)
       IN IF PageDomainAllowed(f.url, allowed_domains.list)
          THEN /\ stack' = SetTop(t, [f EXCEPT !.pc = "extracting"])
               /\ out' = [out EXCEPT ![t] = <<"Extracting content">>]
          ELSE /\ stack' = SetTop(t, AfterPage(f, NoPage))
               /\ out' = [out EXCEPT ![t] = <<"Skipping URL not in allowed domains">>]
    /\ UNCHANGED <<engineVars, ret, calls, ghostVars, poolVars, jobs, call, returned>>

\* _process_page, lines 407-514, and the caller's store of the result:
\* extraction fails (no content, or an exception: None), or yields a page
\* whose anchors are filtered into its links.
ProcessPageEnd(t) ==
    /\ stack[t] # <<>>
    /\ Top(t).pc = "extracting"
    /\ LET f == Top(t)
       IN \/ /\ stack' = SetTop(t, AfterPage(f, NoPage))
             /\ out' = [out EXCEPT ![t] = <<"Skipping URL with no content">>]
             /\ dropped' = [dropped EXCEPT ![t] = {}]
             /\ results' = results
          \/ \E hrefs \in Hrefs :
               LET page == PageInfo(DiscoverLinks(hrefs, allowed_domains.list))
               IN /\ stack' = SetTop(t, AfterPage(f, page))
                  /\ results' = Store(f.url, page)
                  /\ dropped' = [dropped EXCEPT ![t] = Range(hrefs) \ Range(page.links)]
                  /\ out' = [out EXCEPT ![t] = <<"Successfully processed">>]
    /\ UNCHANGED <<visited_urls, allowed_domains, ret, calls, ghostVars, poolVars, jobs, call, returned>>

\* A loop that does not move on from a link it finds visited.
VerifyLinksLoop_NoAdvance(t) ==
    /\ dropped' = [dropped EXCEPT ![t] = {}]
    /\ At(t, "verify_links", "loop")
    /\ LET f == Top(t)
           links == f.page.links
           rest == [f EXCEPT !.page.links = Tail(links)]
       IN IF links = <<>>
          THEN /\ stack' = Pop(t)
               /\ ret' = Returned(t, IF f.page.ok THEN "page_info" ELSE "None")
               /\ out' = [out EXCEPT ![t] = <<>>]
          ELSE IF Head(links) \in visited_urls
          THEN /\ stack' = stack
               /\ ret' = ret
               /\ out' = [out EXCEPT ![t] = <<>>]
          ELSE /\ stack' = Push(t, rest,
                                Frame("verify_links", Head(links), f.depth - 1, "enter", f.url))
               /\ ret' = ret
               /\ out' = [out EXCEPT ![t] = <<"Processing link">>]
    /\ UNCHANGED <<engineVars, calls, ghostVars, poolVars, jobs, call, returned>>

\* verify_links, lines 137-154: the loop over the page's links, one
\* iteration a step; the call returns page_info when the loop is done.
VerifyLinksLoop(t) ==
    /\ dropped' = [dropped EXCEPT ![t] = {}]
    /\ At(t, "verify_links", "loop")
    /\ LET f == Top(t)
           links == f.page.links
           rest == [f EXCEPT !.page.links = Tail(links)]
       IN IF links = <<>>
          THEN /\ stack' = Pop(t)
               /\ ret' = Returned(t, IF f.page.ok THEN "page_info" ELSE "None")
               /\ out' = [out EXCEPT ![t] = <<>>]
          ELSE IF Head(links) \in visited_urls
          THEN /\ stack' = SetTop(t, rest)
               /\ ret' = ret
               /\ out' = [out EXCEPT ![t] = <<>>]
          ELSE /\ stack' = Push(t, rest,
                                Frame("verify_links", Head(links), f.depth - 1, "enter", f.url))
               /\ ret' = ret
               /\ out' = [out EXCEPT ![t] = <<"Processing link">>]
    /\ UNCHANGED <<engineVars, calls, ghostVars, poolVars, jobs, call, returned>>

InitJobsIdle == jobs = <<>>

NoCall == [fn |-> ""]
NotReturned == [done |-> FALSE]
InitNoCall == call = NoCall /\ returned = NotReturned

Init == InitEngine /\ InitPool /\ InitJobsIdle /\ InitNoCall

Next ==
    \/ \E url \in URLS, max_depth \in -1..MaxDepth : CallVerifyLinks(url, max_depth)
    \/ VerifyLinksEnter(Main)
    \/ VerifyLinksMark(Main)
    \/ ProcessPageBegin(Main)
    \/ ProcessPageEnd(Main)
    \/ VerifyLinksLoop(Main)

Spec == Init /\ [][Next]_vars

\* The frame on top ends with an exception where it is: a statement of
\* verify_links outside its own try raises (the progress callback of line
\* 118, or a _process_page put in the method's place that raises, line 124).
\* In a call made for a link the exception reaches the handler of the
\* caller's loop (lines 148-152), which reports it and goes on with the
\* next link; in the first call it reaches the caller of verify_links.
Raises(f) == f.fn = "verify_links" /\ f.pc \in {"mark", "process", "extracting"}

\* A handler around the whole loop instead of around one link.
VerifyLinksRaise_AroundLoop(t) ==
    /\ dropped' = [dropped EXCEPT ![t] = {}]
    /\ stack[t] # <<>>
    /\ Raises(Top(t))
    /\ IF Len(stack[t]) = 1
       THEN /\ stack' = Pop(t)
            /\ ret' = Returned(t, "exception")
            /\ out' = [out EXCEPT ![t] = <<>>]
       ELSE /\ stack' = [stack EXCEPT ![t] =
                           Append(SubSeq(stack[t], 1, Len(stack[t]) - 2),
                                  [stack[t][Len(stack[t]) - 1] EXCEPT !.page.links = <<>>])]
            /\ ret' = ret
            /\ out' = [out EXCEPT ![t] = <<"Error processing link">>]
    /\ UNCHANGED <<engineVars, calls, ghostVars, poolVars, jobs, call, returned>>

VerifyLinksRaise(t) ==
    /\ dropped' = [dropped EXCEPT ![t] = {}]
    /\ stack[t] # <<>>
    /\ Raises(Top(t))
    /\ stack' = Pop(t)
    /\ IF Len(stack[t]) = 1
       THEN /\ ret' = Returned(t, "exception")
            /\ out' = [out EXCEPT ![t] = <<>>]
       ELSE /\ ret' = ret
            /\ out' = [out EXCEPT ![t] = <<"Error processing link">>]
    /\ UNCHANGED <<engineVars, calls, ghostVars, poolVars, jobs, call, returned>>

\* verify_links on one thread, with calls that end in an exception.
NextRaise ==
    \/ \E url \in URLS, max_depth \in -1..MaxDepth : CallVerifyLinks(url, max_depth)
    \/ VerifyLinksEnter(Main)
    \/ VerifyLinksMark(Main)
    \/ ProcessPageBegin(Main)
    \/ ProcessPageEnd(Main)
    \/ VerifyLinksLoop(Main)
    \/ VerifyLinksRaise(Main)

SpecRaise == Init /\ [][NextRaise]_vars

\* The main thread runs on while it is in a call, and each _process_page
\* call returns.
Running ==
    \/ VerifyLinksEnter(Main)
    \/ VerifyLinksMark(Main)
    \/ ProcessPageBegin(Main)
    \/ ProcessPageEnd(Main)
    \/ VerifyLinksLoop(Main)

SpecLive == Init /\ [][Next]_vars /\ WF_vars(Running)

\* ------------------------------------------------------------ crawl_many
\* wait_for_rate_limit, lines 198-219, called when time() returns now. The
\* function body runs under requests_lock, so it is one step. crawl_many
\* binds the name time to the function time.time (line 173), so each of the
\* two time.sleep calls raises AttributeError instead of sleeping: the call
\* then ends with an exception (ok is FALSE) and the ledger as it stands.
RECURSIVE Evict(_, _)
Evict(times, now) ==
    IF times # <<>> /\ now - Head(times) > WINDOW THEN Evict(Tail(times), now) ELSE times

\* The window counted as full one request too late.
WaitForRateLimit_OffByOne(times, now, max_concurrent_requests) ==
    LET kept == Evict(times, now)
        full == Len(kept) > max_concurrent_requests
        sleep_time == kept[1] + WINDOW - now
        added == Append(kept, now)
    IN IF full /\ sleep_time > 0
       THEN [ok |-> FALSE, times |-> kept]
       ELSE IF Len(added) > 1 /\ now - added[Len(added) - 1] < MIN_REQUEST_INTERVAL
       THEN [ok |-> FALSE, times |-> added]
       ELSE [ok |-> TRUE, times |-> added]

WaitForRateLimit(times, now, max_concurrent_requests) ==
    LET kept == Evict(times, now)
        full == Len(kept) >= max_concurrent_requests
        sleep_time == kept[1] + WINDOW - now
        added == Append(kept, now)
    IN IF full /\ sleep_time > 0
       THEN [ok |-> FALSE, times |-> kept]
       ELSE IF Len(added) > 1 /\ now - added[Len(added) - 1] < MIN_REQUEST_INTERVAL
       THEN [ok |-> FALSE, times |-> added]
       ELSE [ok |-> TRUE, times |-> added]

\* The values time() can return next: the clock never runs backwards. It is
\* read on a grid of half a window, which yields every outcome of the three
\* comparisons of wait_for_rate_limit (older than the window, exactly as old,
\* younger; closer than the minimum interval or not).
Tick == WINDOW \div 2
Nows == {now \in clock..(MaxTicks * Tick) : now % Tick = 0}

\* A caller invokes crawl_many(urls, max_depth, max_concurrent_requests):
\* lines 175-196 and the submission of one task per URL (line 264).
CallCrawlMany(urls, max_depth, max_concurrent_requests) ==
    /\ dropped' = [dropped EXCEPT ![Main] = {}]
    /\ stack[Main] = <<>>
    /\ calls = 0
    /\ calls' = 1
    /\ run' = [seeds |-> Range(urls), depth |-> max_depth, pages |-> {},
               fresh |-> visited_urls = {}]
    /\ IF urls = <<>>
       THEN /\ ret' = "empty_map"
            /\ out' = [out EXCEPT ![Main] = <<"No URLs provided">>]
            /\ UNCHANGED <<results, stack, poolVars>>
       ELSE /\ ret' = "none"
            /\ out' = [out EXCEPT ![Main] = <<"Starting multi-URL crawl">>]
            /\ results' = EmptyMap
            /\ request_times' = <<>>
            /\ queue' = urls
            /\ pool_size' = max_concurrent_requests
            /\ stack' = [stack EXCEPT ![Main] = <<Frame("crawl_many", "", max_depth, "join", "")>>]
            /\ UNCHANGED <<clock, acquired>>
    /\ UNCHANGED <<visited_urls, allowed_domains, processed, jobs, call, returned>>

\* The pool has pool_size threads.
PoolWorkers_Unbounded == Workers

PoolWorkers == 1..pool_size

\* A pool thread takes the next submitted task (ThreadPoolExecutor, line
\* 262): crawl_single_url(url) starts. Idle threads are interchangeable; the
\* lowest takes the task.
TakeTask(w) ==
    /\ dropped' = [dropped EXCEPT ![w] = {}]
    /\ w \in PoolWorkers
    /\ stack[w] = <<>>
    /\ \A v \in 1..(w - 1) : stack[v] # <<>>
    /\ queue # <<>>
    /\ queue' = Tail(queue)
    /\ stack' = [stack EXCEPT ![w] =
                    <<Frame("crawl_single_url", Head(queue), run.depth, "rate", "")>>]
    /\ out' = [out EXCEPT ![w] = <<>>]
    /\ UNCHANGED <<engineVars, ret, calls, ghostVars, pool_size, request_times,
                   clock, acquired, jobs, call, returned>>

\* crawl_single_url, line 224: the rate limiter before the seed's fetch. An
\* exception leaves through the handler of lines 255-259: the task returns
\* None and its seed is not processed.
CrawlSingleRate(t) ==
    /\ dropped' = [dropped EXCEPT ![t] = {}]
    /\ At(t, "crawl_single_url", "rate")
    /\ \E now \in Nows :
         LET r == WaitForRateLimit(request_times, now, pool_size)
         IN /\ clock' = now
            /\ request_times' = r.times
            /\ IF r.ok
               THEN /\ stack' = SetTop(t, [Top(t) EXCEPT !.pc = "process"])
                    /\ out' = [out EXCEPT ![t] = <<"Processing URL">>]
               ELSE /\ stack' = Pop(t)
                    /\ out' = [out EXCEPT ![t] = <<"Error crawling">>]
    /\ UNCHANGED <<engineVars, ret, calls, ghostVars, queue, pool_size, acquired, jobs, call, returned>>

\* crawl_single_url, lines 236-253: the loop over the seed page's links;
\* the task returns page_info when the loop is done.
CrawlSingleLoop(t) ==
    /\ dropped' = [dropped EXCEPT ![t] = {}]
    /\ At(t, "crawl_single_url", "loop")
    /\ LET f == Top(t)
           links == f.page.links
       IN IF links = <<>>
          THEN stack' = Pop(t)
          ELSE IF Head(links) \in visited_urls
          THEN stack' = SetTop(t, [f EXCEPT !.page.links = Tail(links)])
          ELSE stack' = SetTop(t, [f EXCEPT !.pc = "link_rate"])
    /\ out' = [out EXCEPT ![t] = <<>>]
    /\ UNCHANGED <<engineVars, ret, calls, ghostVars, poolVars, jobs, call, returned>>

\* crawl_single_url, lines 240-251: the rate limiter, then the recursive
\* verify_links call on the link; an exception of the rate limiter is
\* caught per link (line 248) and the loop goes on.
CrawlSingleLinkRate(t) ==
    /\ dropped' = [dropped EXCEPT ![t] = {}]
    /\ At(t, "crawl_single_url", "link_rate")
    /\ \E now \in Nows :
         LET r == WaitForRateLimit(request_times, now, pool_size)
             f == Top(t)
             rest == [f EXCEPT !.pc = "loop", !.page.links = Tail(f.page.links)]
         IN /\ clock' = now
            /\ request_times' = r.times
            /\ IF r.ok
               THEN /\ stack' = Push(t, rest, Frame("verify_links", Head(f.page.links),
                                                    f.depth - 1, "enter", f.url))
                    /\ out' = [out EXCEPT ![t] = <<"Processing link">>]
               ELSE /\ stack' = SetTop(t, rest)
                    /\ out' = [out EXCEPT ![t] = <<"Error processing link">>]
    /\ UNCHANGED <<engineVars, ret, calls, ghostVars, queue, pool_size, acquired, jobs, call, returned>>

\* crawl_many, lines 262-288: leaving the executor block waits for every
\* task; then the result map is returned.
CrawlManyJoin ==
    /\ dropped' = [dropped EXCEPT ![Main] = {}]
    /\ At(Main, "crawl_many", "join")
    /\ queue = <<>>
    /\ \A w \in Workers : stack[w] = <<>>
    /\ stack' = Pop(Main)
    /\ ret' = "results"
    /\ out' = [out EXCEPT ![Main] = <<"Multi-URL crawl completed">>]
    /\ UNCHANGED <<engineVars, calls, ghostVars, poolVars, jobs, call, returned>>

NextMany ==
    \/ \E urls \in SeqsUpTo(URLS, MaxSeeds), max_depth \in 0..MaxManyDepth,
          max_concurrent_requests \in 1..MaxWorkers :
          CallCrawlMany(urls, max_depth, max_concurrent_requests)
    \/ \E w \in Workers :
          \/ TakeTask(w)
          \/ CrawlSingleRate(w)
          \/ ProcessPageBegin(w)
          \/ ProcessPageSeesNone(w)
          \/ ProcessPageSetDomains(w)
          \/ ProcessPageCheck(w)
          \/ ProcessPageEnd(w)
          \/ CrawlSingleLoop(w)
          \/ CrawlSingleLinkRate(w)
          \/ VerifyLinksEnter(w)
          \/ VerifyLinksMark(w)
          \/ VerifyLinksLoop(w)
    \/ CrawlManyJoin

SpecMany == Init /\ [][NextMany]_vars

\* The frame's next store into self.results is made inside
\* `with results_lock` (lines 232-233): the store of a seed's page by
\* crawl_single_url. No other statement of the engine takes results_lock.
UnderResultsLock(f) == f.fn = "crawl_single_url" /\ f.pc = "extracting"

\* crawl_many with at most one seed and one pool thread, to a greater depth.
NextManyDeep ==
    \/ \E urls \in SeqsUpTo(URLS, 1), max_depth \in 0..MaxDeepDepth :
          CallCrawlMany(urls, max_depth, 1)
    \/ \E w \in Workers :
          \/ TakeTask(w)
          \/ CrawlSingleRate(w)
          \/ ProcessPageBegin(w)
          \/ ProcessPageEnd(w)
          \/ CrawlSingleLoop(w)
          \/ CrawlSingleLinkRate(w)
          \/ VerifyLinksEnter(w)
          \/ VerifyLinksMark(w)
          \/ VerifyLinksLoop(w)
    \/ CrawlManyJoin

SpecManyDeep == Init /\ [][NextManyDeep]_vars

\* ------------------------------------------------- the rate limiter alone
\* wait_for_rate_limit called at any times by any workers: its body runs
\* under requests_lock, so the calls are one after another.
InitRate ==
    /\ visited_urls = {}
    /\ results = EmptyMap
    /\ allowed_domains = NoneDomains
    /\ stack = [t \in Threads |-> <<>>]
    /\ ret = "none"
    /\ out = [t \in Threads |-> <<>>]
    /\ calls = 0
    /\ processed = [u \in URLS |-> 0]
    /\ run = NoRun
    /\ dropped = [t \in Threads |-> {}]
    /\ queue = <<>>
    /\ pool_size \in 1..MaxWorkers
    /\ request_times = <<>>
    /\ clock = 0
    /\ acquired = <<>>
    /\ InitJobsIdle
    /\ InitNoCall

RateNows == {now \in clock..(MaxRateTicks * Tick) : now % Tick = 0}

RateCall ==
    /\ Len(request_times) < MaxLedger
    /\ \E now \in RateNows :
         LET r == WaitForRateLimit(request_times, now, pool_size)
         IN /\ clock' = now
            /\ request_times' = r.times
            /\ acquired' = IF r.ok THEN Append(acquired, now) ELSE acquired
    /\ UNCHANGED <<engineVars, stack, ret, out, calls, ghostVars, dropped, queue,
                   pool_size, jobs, call, returned>>

NextRate == RateCall

SpecRate == InitRate /\ [][NextRate]_vars

\* --------------------------------------------------- the API bridge's jobs
\* jobs is the sequence of the JobState objects created so far, in creation
\* order (a job id is a fresh uuid4, here the position in the sequence), each
\* with the request that started it and the state of its background task.
\*   tracked      the job id is still a key of active_jobs
\*   held         the statuses the job has had, oldest first
\*   pc           where the job's background task stands
\*   progress     in hundredths
\*   hooked       calls of process_page_with_progress that ran its body
\*   stored       entries of crawler.results
\*   todo         sitemap URLs still to process
\*   connections  sockets in manager.active_connections[job_id]
\*   bc           the broadcast of update_status waiting in a send_text: the
\*                size of the set when the iteration began, the sockets
\*                the iterator has not yet yielded, the sockets found dead
TERMINAL == {"completed", "error", "failed"}

NoBroadcast == [on |-> FALSE, size |-> 0, left |-> 0, dead |-> 0]

JobState(kind, use_sitemap, max_pages) ==
    [kind |-> kind, use_sitemap |-> use_sitemap, max_pages |-> max_pages,
     status |-> "pending", progress |-> 0, pages_crawled |-> 0,
     result |-> FALSE, error |-> FALSE, output_file |-> FALSE,
     completion_time |-> FALSE, cleanup |-> "none", tracked |-> TRUE,
     pc |-> "queued", held |-> <<"pending">>,
     hooked |-> 0, stored |-> 0, todo |-> 0,
     connections |-> 0, bc |-> NoBroadcast]

\* update_status up to its first await: the status, the completion time and,
\* with nobody connected, the whole of broadcast_to_job, which then has no
\* await and cannot raise; otherwise up to the send_text to the first socket.
update_status(job_state, status) ==
    LET set == [job_state EXCEPT
                    !.status = status,
                    !.held = Append(@, status),
                    !.completion_time = @ \/ status \in TERMINAL]
    IN IF job_state.connections = 0
       THEN [set EXCEPT !.cleanup = IF status \in TERMINAL THEN "scheduled" ELSE @]
       ELSE [set EXCEPT !.bc = [on |-> TRUE, size |-> job_state.connections,
                                left |-> job_state.connections - 1, dead |-> 0]]

JobIds == 1..Len(jobs)

\* The task of the job stands at pc and is not waiting in a broadcast.
At_pc(job_id, kind, pc) ==
    /\ job_id \in JobIds
    /\ jobs[job_id].kind = kind
    /\ jobs[job_id].pc = pc
    /\ ~jobs[job_id].bc.on

crawlerVars == <<engineVars, stack, ret, out, calls, ghostVars, dropped, poolVars,
                 call, returned>>

\* max_pages: int of the request models, unconstrained.
MaxPagesChoices == {-1, 0, 1, 2}

\* min(0.9, pages_crawled / (max_pages or 50)), in hundredths.
HookProgress(pages_crawled, max_pages) ==
    LET d == IF max_pages = 0 THEN 50 ELSE max_pages
        q == IF d > 0 THEN (100 * pages_crawled) \div d
                      ELSE -((100 * pages_crawled) \div (-d))
    IN IF q < 90 THEN q ELSE 90

\* The truncation after the crawl, on the number of entries.
LimitedCount(n, max_pages) ==
    IF max_pages > 0 /\ n > max_pages THEN max_pages ELSE n

InitJob ==
    /\ visited_urls = {}
    /\ results = EmptyMap
    /\ allowed_domains = NoneDomains
    /\ stack = [t \in Threads |-> <<>>]
    /\ ret = "none"
    /\ out = [t \in Threads |-> <<>>]
    /\ calls = 0
    /\ processed = [u \in URLS |-> 0]
    /\ run = NoRun
    /\ dropped = [t \in Threads |-> {}]
    /\ InitPool
    /\ InitJobsIdle
    /\ InitNoCall

start_crawl ==
    /\ Len(jobs) < MaxJobs
    /\ \E use_sitemap \in BOOLEAN, max_pages \in MaxPagesChoices :
         jobs' = Append(jobs, JobState("single", use_sitemap, max_pages))
    /\ UNCHANGED crawlerVars

start_multi_crawl ==
    /\ Len(jobs) < MaxJobs
    /\ jobs' = Append(jobs, JobState("multi", FALSE, 50))
    /\ UNCHANGED crawlerVars

\* ---- subscribers and the broadcast of a status
\* websocket_endpoint: manager.connect.
connect(job_id) ==
    /\ job_id \in JobIds
    /\ jobs[job_id].connections < MaxConnections
    /\ jobs' = [jobs EXCEPT ![job_id].connections = @ + 1]
    /\ UNCHANGED crawlerVars

\* websocket_endpoint: the client has gone, manager.disconnect.
disconnect(job_id) ==
    /\ job_id \in JobIds
    /\ jobs[job_id].connections > 0
    /\ jobs' = [jobs EXCEPT ![job_id].connections = @ - 1]
    /\ UNCHANGED crawlerVars

\* The set iterator raises RuntimeError when the size of the set is not
\* the size it had when the iteration began.
BroadcastChanged(job_state) == job_state.connections # job_state.bc.size

\* The send_text the broadcast waits in returns (the socket may have proved
\* dead) and the loop of broadcast_to_job goes on: the iterator raises, which
\* update_status catches, scheduling nothing; or it yields the next socket;
\* or the loop is over, the dead sockets are dropped and update_status
\* schedules the cleanup of a terminal status.
BroadcastNext(job_id) ==
    /\ job_id \in JobIds
    /\ jobs[job_id].bc.on
    /\ LET js == jobs[job_id]
       IN \E sent \in BOOLEAN :
            LET dead == IF sent THEN js.bc.dead ELSE js.bc.dead + 1
            IN IF BroadcastChanged(js)
               THEN jobs' = [jobs EXCEPT ![job_id].bc = NoBroadcast]
               ELSE IF js.bc.left > 0
               THEN jobs' = [jobs EXCEPT ![job_id].bc.left = @ - 1,
                                         ![job_id].bc.dead = dead]
               ELSE jobs' = [jobs EXCEPT
                               ![job_id].bc = NoBroadcast,
                               ![job_id].connections = @ - dead,
                               ![job_id].cleanup =
                                   IF js.status \in TERMINAL THEN "scheduled" ELSE @]
    /\ UNCHANGED crawlerVars

\* ---- process_crawl, from one update_status to the next
ProcessCrawlStarting(job_id) ==
    /\ At_pc(job_id, "single", "queued")
    /\ jobs' = [jobs EXCEPT ![job_id] =
                  [update_status(@, "starting") EXCEPT !.pc = "init"]]
    /\ UNCHANGED crawlerVars

\* Building the crawler may raise; the handler re-raises.  Then the hook
\* process_page_with_progress replaces crawler._process_page.
ProcessCrawlInit(job_id) ==
    /\ At_pc(job_id, "single", "init")
    /\ \E raised \in BOOLEAN :
         jobs' = [jobs EXCEPT ![job_id].pc = IF raised THEN "except" ELSE "instrumented"]
    /\ UNCHANGED crawlerVars

ProcessCrawlCrawling(job_id) ==
    /\ At_pc(job_id, "single", "instrumented")
    /\ jobs' = [jobs EXCEPT ![job_id] =
                  [update_status(@, "crawling") EXCEPT !.pc = "crawl"]]
    /\ UNCHANGED crawlerVars

\* The crawl.  Without sitemap mode verify_links calls
\* self._process_page(url, progress_callback): the hook takes one argument,
\* the call raises TypeError before the body of the hook runs (the URL
\* already in visited_urls), and the handler re-raises.  In sitemap mode a sitemap with URLs is
\* cut to max_pages and processed URL by URL; with no URL, verify_links
\* raises as above into the sitemap handler, whose second verify_links finds
\* the URL visited and returns the empty map.
ProcessCrawlCrawl(job_id) ==
    /\ At_pc(job_id, "single", "crawl")
    /\ LET js == jobs[job_id]
       IN IF ~js.use_sitemap
          THEN jobs' = [jobs EXCEPT ![job_id].pc = "except"]
          ELSE \E n \in 0..MaxSitemap :
                 jobs' = [jobs EXCEPT
                            ![job_id].todo = LimitedCount(n, js.max_pages),
                            ![job_id].pc = IF n = 0 THEN "crawled" ELSE "sitemap"]
    /\ UNCHANGED crawlerVars

\* One sitemap URL through the hook (called with one argument here): the
\* counter and the progress, then the original _process_page, whose
\* exceptions the hook swallows; a page that succeeds is counted once more
\* by sync_update_progress and stored.
ProcessCrawlSitemapPage(job_id) ==
    /\ At_pc(job_id, "single", "sitemap")
    /\ LET js == jobs[job_id]
       IN \E ok \in BOOLEAN :
            jobs' = [jobs EXCEPT
                       ![job_id].hooked = @ + 1,
                       ![job_id].pages_crawled = IF ok THEN @ + 2 ELSE @ + 1,
                       ![job_id].progress =
                           HookProgress(js.pages_crawled + 1, js.max_pages),
                       ![job_id].stored = IF ok THEN @ + 1 ELSE @,
                       ![job_id].todo = @ - 1,
                       ![job_id].pc = IF js.todo = 1 THEN "crawled" ELSE "sitemap"]
    /\ UNCHANGED crawlerVars

\* The truncation to max_pages, then the status storing.
ProcessCrawlStoring(job_id) ==
    /\ At_pc(job_id, "single", "crawled")
    /\ jobs' = [jobs EXCEPT ![job_id] =
                  [update_status([@ EXCEPT !.stored = LimitedCount(@, jobs[job_id].max_pages)],
                                 "storing")
                      EXCEPT !.pc = "store"]]
    /\ UNCHANGED crawlerVars

\* Writing the result file (then output_file is set) and save_results; each
\* may raise.
ProcessCrawlStore(job_id) ==
    /\ At_pc(job_id, "single", "store")
    /\ \E written \in BOOLEAN, raised \in BOOLEAN :
         /\ ~written => raised
         /\ jobs' = [jobs EXCEPT ![job_id].output_file = written,
                                 ![job_id].pc = IF raised THEN "except" ELSE "stored"]
    /\ UNCHANGED crawlerVars

ProcessCrawlSavingToDatabase(job_id) ==
    /\ At_pc(job_id, "single", "stored")
    /\ jobs' = [jobs EXCEPT ![job_id] =
                  [update_status(@, "saving to database") EXCEPT !.pc = "save_db"]]
    /\ UNCHANGED crawlerVars

\* With a different spelling of the final status.
ProcessCrawlFinalize_Misspelt(job_id) ==
    /\ At_pc(job_id, "single", "save_db")
    /\ jobs' = [jobs EXCEPT ![job_id] =
                  [update_status([@ EXCEPT !.progress = 100, !.result = TRUE], "complete")
                      EXCEPT !.pc = "final_log"]]
    /\ UNCHANGED crawlerVars

\* The database save swallows its exceptions; then progress = 1.0, the
\* result, and the status completed.
ProcessCrawlFinalize(job_id) ==
    /\ At_pc(job_id, "single", "save_db")
    /\ jobs' = [jobs EXCEPT ![job_id] =
                  [update_status([@ EXCEPT !.progress = 100, !.result = TRUE], "completed")
                      EXCEPT !.pc = "final_log"]]
    /\ UNCHANGED crawlerVars

\* The last log message raising into the handler of process_crawl.
ProcessCrawlFinalLog_Raises(job_id) ==
    /\ At_pc(job_id, "single", "final_log")
    /\ jobs' = [jobs EXCEPT ![job_id].pc = "except"]
    /\ UNCHANGED crawlerVars

\* After completed: the result and output file again, the last log message
\* (add_log catches what its broadcast raises), stdout restored.
ProcessCrawlFinalLog(job_id) ==
    /\ At_pc(job_id, "single", "final_log")
    /\ jobs' = [jobs EXCEPT ![job_id].result = TRUE, ![job_id].output_file = TRUE,
                            ![job_id].pc = "done"]
    /\ UNCHANGED crawlerVars

ProcessCrawlExcept(job_id) ==
    /\ At_pc(job_id, "single", "except")
    /\ jobs' = [jobs EXCEPT ![job_id] =
                  [update_status([@ EXCEPT !.error = TRUE], "error") EXCEPT !.pc = "done"]]
    /\ UNCHANGED crawlerVars

\* ---- process_multi_crawl
ProcessMultiStarting(job_id) ==
    /\ At_pc(job_id, "multi", "queued")
    /\ jobs' = [jobs EXCEPT ![job_id] =
                  [update_status(@, "starting") EXCEPT !.pc = "init"]]
    /\ UNCHANGED crawlerVars

ProcessMultiInit(job_id) ==
    /\ At_pc(job_id, "multi", "init")
    /\ \E raised \in BOOLEAN :
         jobs' = [jobs EXCEPT ![job_id].pc = IF raised THEN "except" ELSE "initialized"]
    /\ UNCHANGED crawlerVars

ProcessMultiCompleted(job_id) ==
    /\ At_pc(job_id, "multi", "initialized")
    /\ jobs' = [jobs EXCEPT ![job_id] =
                  [update_status(@, "completed") EXCEPT !.pc = "result"]]
    /\ UNCHANGED crawlerVars

ProcessMultiResult(job_id) ==
    /\ At_pc(job_id, "multi", "result")
    /\ jobs' = [jobs EXCEPT ![job_id].result = TRUE, ![job_id].pc = "done"]
    /\ UNCHANGED crawlerVars

\* The status failed; the error is set after the log message that follows.
ProcessMultiExcept(job_id) ==
    /\ At_pc(job_id, "multi", "except")
    /\ jobs' = [jobs EXCEPT ![job_id] =
                  [update_status(@, "failed") EXCEPT !.error = TRUE, !.pc = "done"]]
    /\ UNCHANGED crawlerVars

\* The cleanup task, after its delay: the remaining sockets are closed and
\* the job leaves active_jobs.
schedule_cleanup(job_id) ==
    /\ job_id \in JobIds
    /\ jobs[job_id].cleanup = "scheduled"
    /\ jobs' = [jobs EXCEPT ![job_id].cleanup = "done",
                            ![job_id].tracked = FALSE,
                            ![job_id].connections = 0]
    /\ UNCHANGED crawlerVars

\* GET /api/results/{job_id}.
get_job_results(job_state) ==
    IF ~job_state.tracked THEN "404"
    ELSE IF job_state.status # "completed" THEN "not available yet"
    ELSE IF ~job_state.output_file THEN "error"
    ELSE "results"

NextJob ==
    \/ start_crawl
    \/ start_multi_crawl
    \/ \E job_id \in JobIds :
         \/ ProcessCrawlStarting(job_id)
         \/ ProcessCrawlInit(job_id)
         \/ ProcessCrawlCrawling(job_id)
         \/ ProcessCrawlCrawl(job_id)
         \/ ProcessCrawlSitemapPage(job_id)
         \/ ProcessCrawlStoring(job_id)
         \/ ProcessCrawlStore(job_id)
         \/ ProcessCrawlSavingToDatabase(job_id)
         \/ ProcessCrawlFinalize(job_id)
         \/ ProcessCrawlFinalLog(job_id)
         \/ ProcessCrawlExcept(job_id)
         \/ ProcessMultiStarting(job_id)
         \/ ProcessMultiInit(job_id)
         \/ ProcessMultiCompleted(job_id)
         \/ ProcessMultiResult(job_id)
         \/ ProcessMultiExcept(job_id)
         \/ schedule_cleanup(job_id)
         \/ connect(job_id)
         \/ disconnect(job_id)
         \/ BroadcastNext(job_id)

SpecJob == InitJob /\ [][NextJob]_vars

\* ------------------------------------------ functions called on their own
\* The engine, the pool and the jobs idle while one function is called.
InitIdle ==
    /\ visited_urls = {}
    /\ results = EmptyMap
    /\ allowed_domains = NoneDomains
    /\ stack = [t \in Threads |-> <<>>]
    /\ ret = "none"
    /\ out = [t \in Threads |-> <<>>]
    /\ calls = 0
    /\ processed = [u \in URLS |-> 0]
    /\ run = NoRun
    /\ dropped = [t \in Threads |-> {}]
    /\ InitPool
    /\ InitJobsIdle

idleVars == <<engineVars, stack, ret, out, calls, ghostVars, dropped, poolVars, jobs>>

Return(v) == returned' = [done |-> TRUE, value |-> v]

\* ------------------------------------------------------- the job's log
\* One job, its log and its subscribers. jobs holds the one JobState:
\*   progress_logs       JobState.progress_logs
\*   generated           the messages generated so far for the job, in order
\*                       (the k-th message is k)
\*   scheduled           the messages whose add_log coroutine
\*                       sync_update_progress has handed to the event loop
\*   active_connections  manager.active_connections[job_id]
\*   received            per socket, the progress events sent to it
\*   replaying           per socket, the position in progress_logs of the
\*                       line websocket_endpoint sends it next (0: none)
\*   closed              the sockets websocket_endpoint has closed
\*   adds                the add_log calls that await a send_text
\*   ended               the job's task has ended
\* returned is the add_log call that returned last.
\* Everything runs on the thread of the event loop: a step is the code
\* between two awaits.
SOCKETS == 1..MaxSockets

\* The empty message, for which `if message:` fails (line 68).
EMPTY == 0

LogJobState ==
    [progress_logs |-> <<>>, generated |-> <<>>, scheduled |-> <<>>,
     active_connections |-> {}, received |-> [s \in SOCKETS |-> <<>>],
     replaying |-> [s \in SOCKETS |-> 0], closed |-> {},
     adds |-> <<>>, ended |-> FALSE]

\* What an add_log call has done when it returns: the entries it appended,
\* the sockets registered when it was called that are registered still, and
\* the sockets it sent the event to.
AddLogReturned(message, appended, owed, delivered) ==
    [done |-> TRUE,
     value |-> [fn |-> "add_log", message |-> message, appended |-> appended,
                owed |-> owed, delivered |-> delivered]]

\* add_log, lines 68-91, up to the first send_text of broadcast_to_job: the
\* for loop of line 238 takes an iterator of the set and its first socket.
AwaitingSend(by, message, connections, first) ==
    [by |-> by, message |-> message, size |-> Cardinality(connections),
     visited |-> {first}, sending |-> first, owed |-> connections,
     delivered |-> {}, dead |-> {}]

RemoveAt(seq, k) == SubSeq(seq, 1, k - 1) \o SubSeq(seq, k + 1, Len(seq))

TaskAwaits(job_state) ==
    \E k \in 1..Len(job_state.adds) : job_state.adds[k].by = "task"

\* add_log(message, job_id) called by `by` on job_state.
add_log(job_state, by, message) ==
    IF message = EMPTY
    THEN /\ jobs' = <<job_state>>
         /\ returned' = AddLogReturned(message, 0, {}, {})
    ELSE LET logged == [job_state EXCEPT !.progress_logs = Append(@, message)]
         IN IF job_state.active_connections = {}
            THEN /\ jobs' = <<logged>>
                 /\ returned' = AddLogReturned(message, 1, {}, {})
            ELSE /\ \E first \in job_state.active_connections :
                       jobs' = <<[logged EXCEPT !.adds = Append(@,
                                   AwaitingSend(by, message,
                                                job_state.active_connections, first))]>>
                 /\ returned' = returned

logIdleVars == <<engineVars, stack, ret, out, calls, ghostVars, dropped, poolVars, call>>

InitLog ==
    /\ visited_urls = {}
    /\ results = EmptyMap
    /\ allowed_domains = NoneDomains
    /\ stack = [t \in Threads |-> <<>>]
    /\ ret = "none"
    /\ out = [t \in Threads |-> <<>>]
    /\ calls = 0
    /\ processed = [u \in URLS |-> 0]
    /\ run = NoRun
    /\ dropped = [t \in Threads |-> {}]
    /\ InitPool
    /\ jobs = <<LogJobState>>
    /\ InitNoCall

\* process_crawl: `await update_progress(message)`, lines 277-279.
UpdateProgress ==
    LET job_state == jobs[1]
    IN /\ ~job_state.ended
       /\ ~TaskAwaits(job_state)
       /\ \/ add_log(job_state, "task", EMPTY)
          \/ /\ Len(job_state.generated) < MaxMessages
             /\ LET message == Len(job_state.generated) + 1
                IN add_log([job_state EXCEPT !.generated = Append(@, message)],
                           "task", message)
       /\ UNCHANGED logIdleVars

\* A crawl hook calls sync_update_progress(message), lines 379-402: the
\* message is appended to progress_logs (line 384) and add_log(message) is
\* handed to the event loop (line 395), which is running.
sync_update_progress ==
    LET job_state == jobs[1]
        message == Len(job_state.generated) + 1
    IN /\ ~job_state.ended
       /\ ~TaskAwaits(job_state)
       /\ Len(job_state.generated) < MaxMessages
       /\ jobs' = <<[job_state EXCEPT !.generated = Append(@, message),
                                       !.progress_logs = Append(@, message),
                                       !.scheduled = Append(@, message)]>>
       /\ UNCHANGED <<logIdleVars, returned>>

\* The event loop runs the next coroutine handed to it, while the job's task
\* awaits or after it has ended: async_update_progress, lines 375-376.
async_update_progress ==
    LET job_state == jobs[1]
    IN /\ job_state.scheduled # <<>>
       /\ job_state.ended \/ TaskAwaits(job_state)
       /\ add_log([job_state EXCEPT !.scheduled = Tail(@)], "loop",
                  Head(job_state.scheduled))
       /\ UNCHANGED logIdleVars

\* broadcast_to_job, lines 238-249, from the return of a send_text to the
\* next one: the send has delivered the event, or has raised for a socket
\* that is gone; then the iterator is asked for the next socket and raises
\* RuntimeError if the set has changed its size (caught at line 92 of
\* add_log), or the loop is over and the dead sockets are disconnected.
BroadcastToJobNext(k) ==
    LET job_state == jobs[1]
    IN /\ k \in 1..Len(job_state.adds)
       /\ LET add == job_state.adds[k]
          IN \E sent \in BOOLEAN :
               /\ add.sending \in job_state.active_connections => sent
               /\ add.sending \in job_state.closed => ~sent
               /\ LET delivered == IF sent THEN add.delivered \cup {add.sending}
                                   ELSE add.delivered
                      dead == IF sent THEN add.dead ELSE add.dead \cup {add.sending}
                      after_send ==
                          [job_state EXCEPT !.received[add.sending] =
                              IF sent THEN Append(@, add.message) ELSE @]
                      to_visit == job_state.active_connections \ add.visited
                  IN IF Cardinality(job_state.active_connections) # add.size
                     THEN /\ jobs' = <<[after_send EXCEPT !.adds = RemoveAt(@, k)]>>
                          /\ returned' = AddLogReturned(add.message, 1, add.owed, delivered)
                     ELSE IF to_visit = {}
                     THEN /\ jobs' = <<[after_send EXCEPT
                                           !.adds = RemoveAt(@, k),
                                           !.active_connections = @ \ dead]>>
                          /\ returned' = AddLogReturned(add.message, 1, add.owed, delivered)
                     ELSE /\ \E next \in to_visit :
                                jobs' = <<[after_send EXCEPT !.adds[k] =
                                            [add EXCEPT !.delivered = delivered,
                                                        !.dead = dead,
                                                        !.visited = @ \cup {next},
                                                        !.sending = next]]>>
                          /\ returned' = returned
       /\ UNCHANGED logIdleVars

\* websocket_endpoint, lines 1186-1196: a new socket is registered by
\* manager.connect (lines 211-213) and sent the status; the lines logged
\* so far are sent next.
WebSocketConnect(s) ==
    LET job_state == jobs[1]
    IN /\ s \notin job_state.active_connections
       /\ s \notin job_state.closed
       /\ jobs' = <<[job_state EXCEPT !.active_connections = @ \cup {s},
                                       !.received[s] = <<>>,
                                       !.replaying[s] = 1]>>
       /\ UNCHANGED <<logIdleVars, returned>>

\* websocket_endpoint, lines 1199-1207: `for log in job_state.progress_logs`
\* walks the list itself, one send_text a step, and ends when the position
\* is past the end of the list as it is then.
WebSocketReplay(s) ==
    LET job_state == jobs[1]
        at == job_state.replaying[s]
    IN /\ s \in job_state.active_connections
       /\ at > 0
       /\ IF at <= Len(job_state.progress_logs)
          THEN jobs' = <<[job_state EXCEPT
                            !.received[s] = Append(@, job_state.progress_logs[at]),
                            !.replaying[s] = at + 1]>>
          ELSE jobs' = <<[job_state EXCEPT !.replaying[s] = 0]>>
       /\ UNCHANGED <<logIdleVars, returned>>

\* websocket_endpoint: manager.disconnect(websocket, job_id), lines 215-218,
\* when the client has gone.
WebSocketDisconnect(s) ==
    LET job_state == jobs[1]
    IN /\ s \in job_state.active_connections
       /\ s \notin job_state.closed
       /\ jobs' = <<[job_state EXCEPT
                       !.active_connections = @ \ {s},
                       !.replaying[s] = 0,
                       !.adds = [k \in 1..Len(@) |-> [@[k] EXCEPT !.owed = @ \ {s}]]]>>
       /\ UNCHANGED <<logIdleVars, returned>>

\* websocket_endpoint finds the job's status terminal, after the replay
\* (lines 1209-1220), on a ping (lines 1236-1247) or on the timeout of the
\* receive (lines 1269-1279): it sends the final status, closes the socket
\* and returns. The handlers that call manager.disconnect (lines 1289-1294)
\* are not entered.
WebSocketClose(s) ==
    LET job_state == jobs[1]
    IN /\ s \in job_state.active_connections
       /\ s \notin job_state.closed
       /\ job_state.replaying[s] = 0
       /\ job_state.ended
       /\ jobs' = <<[job_state EXCEPT !.closed = @ \cup {s}]>>
       /\ UNCHANGED <<logIdleVars, returned>>

\* The job's task ends, its status terminal.
TaskEnds ==
    LET job_state == jobs[1]
    IN /\ ~job_state.ended
       /\ ~TaskAwaits(job_state)
       /\ jobs' = <<[job_state EXCEPT !.ended = TRUE]>>
       /\ UNCHANGED <<logIdleVars, returned>>

NextLog ==
    \/ UpdateProgress
    \/ sync_update_progress
    \/ async_update_progress
    \/ \E k \in 1..(MaxMessages + 1) : BroadcastToJobNext(k)
    \/ \E s \in SOCKETS : WebSocketConnect(s)
    \/ \E s \in SOCKETS : WebSocketReplay(s)
    \/ \E s \in SOCKETS : WebSocketDisconnect(s)
    \/ \E s \in SOCKETS : WebSocketClose(s)
    \/ TaskEnds

SpecLog == InitLog /\ [][NextLog]_vars

\* ------------------------------------------------- the page-level check
\* The netlocs of URLs handed to _process_page: the site bare, with www.,
\* a subdomain, in capitals, a host that only ends like the site, another
\* site.
NETLOCS ==
    {HostST, HostWwwST, HostSubST, HostOT,
     <<"S", ".", "T">>,
     <<"W", "W", "W", ".", "s", ".", "t">>,
     <<"a", ".", "S", ".", "t">>,
     <<"x", "s", ".", "t">>,
     <<"w", "w", "w", ".", "o", ".", "t">>,
     <<"a", ".", "w", "w", "w", ".", "s", ".", "t">>}

\* The entries a caller puts into allowed_domains.
ALLOWED_ENTRIES ==
    {HostST, HostWwwST, HostSubST, HostOT,
     <<"S", ".", "T">>,
     SchemeHttps \o HostST,
     SchemeHttp \o HostWwwST \o <<"/", "a">>}

InitDomainCheck ==
    /\ InitIdle
    /\ call \in {[fn |-> fn, netloc |-> netloc, allowed_domains |-> allowed] :
                     fn \in {"domain_check", "link_check"},
                     netloc \in NETLOCS,
                     allowed \in SeqsUpTo(ALLOWED_ENTRIES, MaxAllowed) \ {<<>>}}
    /\ returned = NotReturned

\* _process_page up to the end of its domain check.
CallDomainCheck ==
    /\ call.fn = "domain_check"
    /\ ~returned.done
    /\ Return(NetlocAllowed(call.netloc, call.allowed_domains))
    /\ UNCHANGED <<idleVars, call>>

\* The domain filter of link discovery in _process_page, on the netloc of
\* one anchor.
CallLinkCheck ==
    /\ call.fn = "link_check"
    /\ ~returned.done
    /\ Return(LinkNetlocAllowed(call.netloc, call.allowed_domains))
    /\ UNCHANGED <<idleVars, call>>

NextDomainCheck ==
    \/ CallDomainCheck
    \/ CallLinkCheck

SpecDomainCheck == InitDomainCheck /\ [][NextDomainCheck]_vars

\* --------------------------------------------- the truncation to max_pages
\* A result map before the truncation: keys in insertion order, no key twice.
ResultMaps ==
    {map \in SeqsUpTo(URLS, Cardinality(URLS)) :
        \A j, k \in 1..Len(map) : map[j] = map[k] => j = k}

\* The loop left one entry too late.
LimitBreak_OffByOne(i, max_pages) == i > max_pages

\* if i >= max_pages: break  (i counts from 0)
LimitBreak(i, max_pages) == i >= max_pages

\* for i, (url, data) in enumerate(crawler.results.items())
RECURSIVE LimitLoop(_, _, _, _)
LimitLoop(map, i, max_pages, limited_results) ==
    IF i >= Len(map) \/ LimitBreak(i, max_pages) THEN limited_results
    ELSE LimitLoop(map, i + 1, max_pages, Append(limited_results, map[i + 1]))

\* The truncation step of process_crawl and of run_multi_url_crawl.
LimitResults(map, max_pages) ==
    IF max_pages > 0 /\ Len(map) > max_pages
    THEN LimitLoop(map, 0, max_pages, EmptyMap)
    ELSE map

InitLimit ==
    /\ InitIdle
    /\ call \in {[fn |-> "limit_results", results |-> map, max_pages |-> max_pages] :
                     map \in ResultMaps, max_pages \in -1..MaxLimit}
    /\ returned = NotReturned

CallLimitResults ==
    /\ call.fn = "limit_results"
    /\ ~returned.done
    /\ Return(LimitResults(call.results, call.max_pages))
    /\ UNCHANGED <<idleVars, call>>

NextLimit == CallLimitResults

SpecLimit == InitLimit /\ [][NextLimit]_vars

\* ------------------------------------------------------------ parse_sitemap
\* The web of sitemap documents: what requests.get and ET.fromstring make of
\* each address.  A loc without text is "".
SITEMAPS == {"https://s.t/sitemap.xml", "https://s.t/sitemap2.xml"}

Documents ==
    {[kind |-> k, locs |-> <<>>] :
        k \in {"ConnectionError", "HTTPError", "ParseError", "other root"}}
    \cup {[kind |-> "urlset", locs |-> l] :
            l \in SeqsUpTo({"", "https://s.t/", "https://www.s.t/a"}, MaxLocs)}
    \cup {[kind |-> "sitemapindex", locs |-> l] :
            l \in SeqsUpTo({""} \cup SITEMAPS, MaxLocs)}
    \cup {[kind |-> "rss", locs |-> l] :
            l \in SeqsUpTo({"", "https://s.t/"}, 1)}

\* The entries with a text, in document order.
WithText(locs) == SelectSeq(locs, LAMBDA loc : loc # "")

Raised(exc) == [raised |-> TRUE, exc |-> exc, urls |-> <<>>]
Urls(urls) == [raised |-> FALSE, exc |-> "", urls |-> urls]

\* An except clause for the exceptions of requests only.
Caught_RequestsOnly(exc) == exc \in {"ConnectionError", "HTTPError"}

\* except Exception
Caught(exc) == exc \in {"ConnectionError", "HTTPError", "ParseError", "RecursionError"}

\* parse_sitemap: the body of its try, then its except clause.  depth is the
\* number of calls of parse_sitemap on the stack.
RECURSIVE parse_sitemap(_, _, _)
RECURSIVE SubSitemaps(_, _, _)
SubSitemaps(web, sitemap_urls, depth) ==
    IF sitemap_urls = <<>> THEN Urls(<<>>)
    ELSE LET sub_urls == parse_sitemap(web, Head(sitemap_urls), depth + 1)
         IN IF sub_urls.raised THEN sub_urls
            ELSE LET rest == SubSitemaps(web, Tail(sitemap_urls), depth)
                 IN IF rest.raised THEN rest
                    ELSE Urls(sub_urls.urls \o rest.urls)

parse_sitemap(web, sitemap_url, depth) ==
    LET document == web[sitemap_url]
        body ==
            IF depth > MaxNesting THEN Raised("RecursionError")
            ELSE IF document.kind \in {"ConnectionError", "HTTPError", "ParseError"}
            THEN Raised(document.kind)
            ELSE IF document.kind = "urlset" THEN Urls(WithText(document.locs))
            ELSE IF document.kind = "sitemapindex"
            THEN SubSitemaps(web, WithText(document.locs), depth)
            ELSE IF document.kind = "rss" THEN Urls(WithText(document.locs))
            ELSE Urls(<<>>)
    IN IF body.raised /\ Caught(body.exc) THEN Urls(<<>>) ELSE body

InitSitemap ==
    /\ InitIdle
    /\ call \in {[fn |-> "parse_sitemap", sitemap_url |-> sitemap_url, web |-> web] :
                     sitemap_url \in SITEMAPS, web \in [SITEMAPS -> Documents]}
    /\ returned = NotReturned

CallParseSitemap ==
    /\ call.fn = "parse_sitemap"
    /\ ~returned.done
    /\ Return(parse_sitemap(call.web, call.sitemap_url, 1))
    /\ UNCHANGED <<idleVars, call>>

NextSitemap == CallParseSitemap

SpecSitemap == InitSitemap /\ [][NextSitemap]_vars

\* ------------------------------------------- verify_links on a fixed web
\* verify_links as a function of the web it crawls: every page is on the
\* allowed domain, is fetched with success and has the links the web gives
\* it. The call returns what it has added to visited_urls and the pages it
\* has processed, in order, each with its max_depth and the page that led
\* to it.
NODES == {"https://s.t/", "https://s.t/a", "https://s.t/b", "https://s.t/c"}

LinkLists ==
    {links \in SeqsUpTo(NODES, MaxOut) :
        \A i, j \in 1..Len(links) : links[i] = links[j] => i = j}

Webs == [NODES -> LinkLists]

\* A recursive call made with the max_depth of its caller.
ChildDepth_Same(max_depth) == max_depth

\* line 147: max_depth=max_depth-1
ChildDepth(max_depth) == max_depth - 1

RECURSIVE verify_links(_, _, _, _, _)
RECURSIVE LinksLoop(_, _, _, _, _)
LinksLoop(web, url, links, max_depth, crawled) ==
    IF links = <<>> THEN crawled
    ELSE LinksLoop(web, url, Tail(links), max_depth,
                   IF Head(links) \notin crawled.visited_urls
                   THEN verify_links(web, Head(links), ChildDepth(max_depth), url, crawled)
                   ELSE crawled)

verify_links(web, url, max_depth, via, crawled) ==
    IF max_depth < 0 \/ url \in crawled.visited_urls THEN crawled
    ELSE LET processed_page ==
                 [visited_urls |-> crawled.visited_urls \cup {url},
                  pages |-> Append(crawled.pages,
                                   [url |-> url, max_depth |-> max_depth, via |-> via])]
         IN IF max_depth > 0
            THEN LinksLoop(web, url, web[url], max_depth, processed_page)
            ELSE processed_page

InitWeb ==
    /\ InitIdle
    /\ call \in {[fn |-> "verify_links", web |-> web, url |-> "https://s.t/",
                   max_depth |-> max_depth] :
                     web \in Webs, max_depth \in 0..MaxHops}
    /\ returned = NotReturned

CallVerifyLinksOnWeb ==
    /\ call.fn = "verify_links"
    /\ ~returned.done
    /\ Return(verify_links(call.web, call.url, call.max_depth, "",
                           [visited_urls |-> {}, pages |-> <<>>]))
    /\ UNCHANGED <<idleVars, call>>

NextWeb == CallVerifyLinksOnWeb

SpecWeb == InitWeb /\ [][NextWeb]_vars

\* ---------------------------------------------------- get_selectors_for_url
\* A URL is a sequence of pieces of text; urlparse finds the netloc between
\* "//" and the first piece that opens the path, the query or the fragment,
\* and the path up to the query or the fragment.
HOSTS == {"supabase.com", "SUPABASE.COM", "www.supabase.com", "example.com"}
PORTS == {":443"}
PATH_PARTS == {"/docs/reference/cli/", "/docs/", "/cli/"}
LEAVES == {"supabase-inspect-db-locks"}
AFTER_PATH == {"?next=/docs/reference/cli/", "#/docs/reference/cli/"}

SelectorUrls ==
    {<<"https:", "//", host>> \o port \o path \o leaf \o after :
        host \in HOSTS,
        port \in {<<>>} \cup {<<p>> : p \in PORTS},
        path \in SeqsUpTo(PATH_PARTS, MaxParts),
        leaf \in {<<>>} \cup {<<l>> : l \in LEAVES},
        after \in {<<>>} \cup {<<a>> : a \in AFTER_PATH}}

RECURSIVE TakeWhileIn(_, _)
TakeWhileIn(pieces, S) ==
    IF pieces = <<>> \/ Head(pieces) \notin S THEN <<>>
    ELSE <<Head(pieces)>> \o TakeWhileIn(Tail(pieces), S)

\* urlparse(url): the netloc and the path, as the pieces that make them.
urlparse(url) ==
    LET rest == SubSeq(url, 3, Len(url))
        netloc == TakeWhileIn(rest, HOSTS \cup PORTS)
        after_netloc == SubSeq(rest, Len(netloc) + 1, Len(rest))
    IN [netloc |-> netloc,
        path |-> TakeWhileIn(after_netloc, PATH_PARTS \cup LEAVES)]

GENERIC_SELECTORS == "GENERIC_SELECTORS"
SUPABASE_CLI_SELECTORS == "SUPABASE_CLI_SELECTORS"

DOMAIN_SELECTOR_MAP ==
    [domain \in {<<"supabase.com">>} |->
        [path_patterns |-> <<"/docs/reference/cli/">>,
         selectors |-> SUPABASE_CLI_SELECTORS]]

\* pattern in path, for the pieces above: none of them holds a pattern
\* within it and no two of them make one together.
PatternInPath(pattern, path) == \E k \in 1..Len(path) : path[k] = pattern

DomainInMap(domain) == domain \in DOMAIN DOMAIN_SELECTOR_MAP

get_selectors_for_url(url) ==
    LET parsed_url == urlparse(url)
        domain == parsed_url.netloc
        path == parsed_url.path
    IN IF /\ DomainInMap(domain)
          /\ \E k \in 1..Len(DOMAIN_SELECTOR_MAP[domain].path_patterns) :
                PatternInPath(DOMAIN_SELECTOR_MAP[domain].path_patterns[k], path)
       THEN DOMAIN_SELECTOR_MAP[domain].selectors
       ELSE GENERIC_SELECTORS

InitSelectors ==
    /\ InitIdle
    /\ call \in {[fn |-> "get_selectors_for_url", url |-> url] : url \in SelectorUrls}
    /\ returned = NotReturned

CallGetSelectors ==
    /\ call.fn = "get_selectors_for_url"
    /\ ~returned.done
    /\ Return(get_selectors_for_url(call.url))
    /\ UNCHANGED <<idleVars, call>>

NextSelectors == CallGetSelectors

SpecSelectors == InitSelectors /\ [][NextSelectors]_vars

\* ------------------------------------------------------------ the chunker
\* A text is a sequence of characters; a letter, the space, the newline and
\* the hash stand for all.
CHARS == {"a", " ", "\n", "#"}

IsSpace(c) == c \in {" ", "\n"}

\* str.strip()
RECURSIVE LStrip(_)
LStrip(text) ==
    IF text # <<>> /\ IsSpace(Head(text)) THEN LStrip(Tail(text)) ELSE text

RECURSIVE RStrip(_)
RStrip(text) ==
    IF text # <<>> /\ IsSpace(text[Len(text)])
    THEN RStrip(SubSeq(text, 1, Len(text) - 1))
    ELSE text

Strip(text) == RStrip(LStrip(text))

\* len(str.split()): the maximal runs of characters that are not whitespace.
WordCount(text) ==
    Cardinality({i \in 1..Len(text) :
                    /\ ~IsSpace(text[i])
                    /\ (i = 1 \/ IsSpace(text[i - 1]))})

\* #{1,6}
MAX_HASHES == 6

RECURSIVE HashRun(_, _)
HashRun(text, i) ==
    IF i <= Len(text) /\ text[i] = "#" THEN 1 + HashRun(text, i + 1) ELSE 0

\* The length of the match of (\n\n|\n#{1,6} ) at position i, 0 without one.
DelimiterAt(text, i) ==
    IF text[i] # "\n" \/ i = Len(text) THEN 0
    ELSE IF text[i + 1] = "\n" THEN 2
    ELSE LET k == HashRun(text, i + 1)
         IN IF /\ k >= 1
               /\ k <= MAX_HASHES
               /\ i + 1 + k <= Len(text)
               /\ text[i + 1 + k] = " "
            THEN k + 2
            ELSE 0

\* re.split with the one capturing group: text, delimiter, text, ...
RECURSIVE SplitFrom(_, _, _)
SplitFrom(text, start, i) ==
    IF i > Len(text) THEN <<SubSeq(text, start, Len(text))>>
    ELSE LET d == DelimiterAt(text, i)
         IN IF d > 0
            THEN <<SubSeq(text, start, i - 1), SubSeq(text, i, i + d - 1)>>
                     \o SplitFrom(text, i + d, i + d)
            ELSE SplitFrom(text, start, i + 1)

ReSplit(text) == SplitFrom(text, 1, 1)

\* A chunk; parts, the split parts it was put together from, is kept for
\* the properties only.
Chunk(id, current_chunk, parts) ==
    [id |-> id, content |-> Strip(current_chunk),
     word_count |-> WordCount(current_chunk), parts |-> parts]

\* Parts skipped whenever they begin with a newline: every delimiter.
SkipPart_Delimiters(part) == Strip(part) = <<>> \/ part[1] = "\n"

SkipPart(part) == Strip(part) = <<>>

\* The current chunk closed on the size of the part alone.
MustFlush_PartOnly(current_chunk, part, max_chunk_size) ==
    Len(part) > max_chunk_size /\ current_chunk # <<>>

MustFlush(current_chunk, part, max_chunk_size) ==
    Len(current_chunk) + Len(part) > max_chunk_size /\ current_chunk # <<>>

\* The loop over text_parts, from index i on, and the last chunk.
RECURSIVE ChunkLoop(_, _, _, _, _, _)
ChunkLoop(text_parts, i, current_chunk, parts, chunks, max_chunk_size) ==
    IF i > Len(text_parts)
    THEN IF Strip(current_chunk) # <<>>
         THEN Append(chunks, Chunk(Len(chunks), current_chunk, parts))
         ELSE chunks
    ELSE LET part == text_parts[i]
         IN IF SkipPart(part)
            THEN ChunkLoop(text_parts, i + 1, current_chunk, parts, chunks,
                           max_chunk_size)
            ELSE IF MustFlush(current_chunk, part, max_chunk_size)
            THEN ChunkLoop(text_parts, i + 1, part, <<part>>,
                           Append(chunks, Chunk(Len(chunks), current_chunk, parts)),
                           max_chunk_size)
            ELSE ChunkLoop(text_parts, i + 1, current_chunk \o part,
                           Append(parts, part), chunks, max_chunk_size)

_chunk_markdown(markdown_text, max_chunk_size) ==
    IF markdown_text = <<>> THEN <<>>
    ELSE ChunkLoop(ReSplit(markdown_text), 1, <<>>, <<>>, <<>>, max_chunk_size)

InitChunk ==
    /\ InitIdle
    /\ call \in {[fn |-> "_chunk_markdown", markdown_text |-> text,
                   max_chunk_size |-> max_chunk_size] :
                     text \in SeqsUpTo(CHARS, MaxText),
                     max_chunk_size \in 0..MaxChunkSize}
    /\ returned = NotReturned

CallChunkMarkdown ==
    /\ call.fn = "_chunk_markdown"
    /\ ~returned.done
    /\ Return(_chunk_markdown(call.markdown_text, call.max_chunk_size))
    /\ UNCHANGED <<idleVars, call>>

NextChunk == CallChunkMarkdown

SpecChunk == InitChunk /\ [][NextChunk]_vars

\* ------------------------------------------------------ frames, generally
Frames(t) == {stack[t][k] : k \in 1..Len(stack[t])}
AllFrames == UNION {Frames(t) : t \in Threads}
\* The frame's URL has been handed to _process_page and the call is running.
InProcessPage(f) == f.pc \in {"set_domains", "check", "extracting"}

\* ------------------------------------- the AllowedDomainSet, by host labels
RECURSIVE SplitDots(_)
SplitDots(h) ==
    IF h = <<>> THEN << <<>> >>
    ELSE LET r == SplitDots(Tail(h))
         IN IF Head(h) = "." THEN << <<>> >> \o r
            ELSE << <<Head(h)>> \o Head(r) >> \o Tail(r)

IgnoreWww(labels) ==
    IF Len(labels) > 1 /\ Head(labels) = <<"w", "w", "w">> THEN Tail(labels) ELSE labels

SameOrSubdomain(host, domain) ==
    /\ Len(host) >= Len(domain)
    /\ SubSeq(host, Len(host) - Len(domain) + 1, Len(host)) = domain

InAllowedDomainSet(url) ==
    \E k \in 1..Len(allowed_domains.list) :
        SameOrSubdomain(IgnoreWww(SplitDots(Netloc(url))),
                        IgnoreWww(SplitDots(allowed_domains.list[k])))

\* ------------------------------------------------------- _extract_content
\* One page through _extract_content and the rest of _process_page. call
\* holds the position: fetched is what each requests.get of the URL led to,
\* in order:
\*   "markdown"       a page whose markdown is not empty
\*   "empty"          a page whose markdown is empty
\*   "request_error"  requests.RequestException
\*   "error"          another Exception while the page is taken apart
FETCH_OUTCOMES == {"markdown", "empty", "request_error", "error"}

max_retries == 3

NoContent == [is_none |-> TRUE, markdown |-> FALSE]
Content(markdown) == [is_none |-> FALSE, markdown |-> markdown]

\* The page_info of _process_page, lines 472-492: "accessible" with the
\* markdown of the content.
PageRecord(url, content) ==
    [is_none |-> FALSE, url |-> url, status |-> "accessible",
     markdown |-> content.markdown]
NonePage == [is_none |-> TRUE]

InitExtract ==
    /\ InitIdle
    /\ call \in {[fn |-> "_process_page", url |-> url, pc |-> "extract",
                  attempt |-> 0, fetched |-> <<>>, content |-> NoContent] :
                     url \in URLS}
    /\ returned = NotReturned

\* The attempt after this one, lines 791-794, 804-806, 809-811 and the end
\* of the for loop: the last attempt is followed by return None.
ExtractRetry(fetched) ==
    IF call.attempt < max_retries - 1
    THEN call' = [call EXCEPT !.attempt = @ + 1, !.fetched = fetched]
    ELSE call' = [call EXCEPT !.pc = "extracted", !.fetched = fetched,
                              !.content = NoContent]

\* One pass of the for loop of _extract_content, lines 700-811: the fetch,
\* and what follows it. An empty markdown is retried while attempts are
\* left (lines 790-794); at the last attempt the dictionary is returned with
\* the empty markdown (lines 796-800).
ExtractAttempt ==
    /\ call.fn = "_process_page"
    /\ call.pc = "extract"
    /\ \E outcome \in FETCH_OUTCOMES :
         LET fetched == Append(call.fetched, outcome)
         IN CASE outcome = "markdown" ->
                   call' = [call EXCEPT !.pc = "extracted", !.fetched = fetched,
                                        !.content = Content(TRUE)]
              [] outcome = "empty" /\ call.attempt = max_retries - 1 ->
                   call' = [call EXCEPT !.pc = "extracted", !.fetched = fetched,
                                        !.content = Content(FALSE)]
              [] OTHER -> ExtractRetry(fetched)
    /\ UNCHANGED <<idleVars, returned>>

\* _process_page after the extraction, lines 406-508: `if not content` is the
\* test of None, a dictionary with three keys being true whatever its
\* markdown.
ProcessPageAfterExtract ==
    /\ call.fn = "_process_page"
    /\ call.pc = "extracted"
    /\ ~returned.done
    /\ Return(IF call.content.is_none THEN NonePage
              ELSE PageRecord(call.url, call.content))
    /\ UNCHANGED <<idleVars, call>>

NextExtract ==
    \/ ExtractAttempt
    \/ ProcessPageAfterExtract

SpecExtract == InitExtract /\ [][NextExtract]_vars

\* ------------------------------------------------------------ embeddings
\* The values of a vector; 0 is 0.0.
VALUES == {0, 1, 2}

\* What Ollama answers: a status other than 200, or 200 with a vector (None
\* and the empty list alike are <<>>).
InitEmbedding ==
    /\ InitIdle
    /\ call \in {[fn |-> "_get_embedding", ok |-> ok, embedding |-> embedding] :
                     ok \in BOOLEAN, embedding \in SeqsUpTo(VALUES, MaxVector)}
                \cup {[fn |-> "pad_embedding", ok |-> TRUE, embedding |-> embedding] :
                     embedding \in SeqsUpTo(VALUES, MaxVector)}
    /\ returned = NotReturned

\* [0.0] * n
RECURSIVE Zeros(_)
Zeros(n) == IF n <= 0 THEN <<>> ELSE <<0>> \o Zeros(n - 1)

\* embedding * n
RECURSIVE Repeat(_, _)
Repeat(embedding, n) == IF n <= 0 THEN <<>> ELSE embedding \o Repeat(embedding, n - 1)

NoneEmbedding == [is_none |-> TRUE, raised |-> FALSE, vector |-> <<>>]
Embedding(vector) == [is_none |-> FALSE, raised |-> FALSE, vector |-> vector]
ZeroDivisionError == [is_none |-> FALSE, raised |-> TRUE, vector |-> <<>>]

\* _get_embedding from the answer on, lines 546-577.
_get_embedding(ok, embedding) ==
    IF ~ok THEN NoneEmbedding
    ELSE IF embedding = <<>> THEN Embedding(embedding)
    ELSE LET current_dim == Len(embedding)
         IN IF current_dim = expected_dim THEN Embedding(embedding)
            ELSE IF current_dim < expected_dim
            THEN Embedding(embedding \o Zeros(expected_dim - current_dim))
            ELSE Embedding(SubSeq(embedding, 1, expected_dim))

\* pad_embedding of integrated_workflow.py.
pad_embedding(embedding, target_dimensions) ==
    LET current_dimensions == Len(embedding)
    IN IF current_dimensions = target_dimensions THEN Embedding(embedding)
       ELSE IF current_dimensions > target_dimensions
       THEN Embedding(SubSeq(embedding, 1, target_dimensions))
       ELSE IF current_dimensions = 0 THEN ZeroDivisionError
       ELSE LET padding_repeats == (target_dimensions \div current_dimensions) + 1
            IN Embedding(SubSeq(Repeat(embedding, padding_repeats), 1, target_dimensions))

CallGetEmbedding ==
    /\ call.fn = "_get_embedding"
    /\ ~returned.done
    /\ Return(_get_embedding(call.ok, call.embedding))
    /\ UNCHANGED <<idleVars, call>>

CallPadEmbedding ==
    /\ call.fn = "pad_embedding"
    /\ ~returned.done
    /\ Return(pad_embedding(call.embedding, expected_dim))
    /\ UNCHANGED <<idleVars, call>>

NextEmbedding ==
    \/ CallGetEmbedding
    \/ CallPadEmbedding

SpecEmbedding == InitEmbedding /\ [][NextEmbedding]_vars

\* ------------------------------------------------- the import into the store
\* What a requests.post to the store leads to: a status of 200, 201 or 202,
\* another status, or an exception (the store cannot be reached).
RESPONSES == {"accepted", "rejected", "unreachable"}

NoRecord == [is_none |-> TRUE, stored |-> FALSE]
Record(stored) == [is_none |-> FALSE, stored |-> stored]

\* insert_site_page: the required fields, the insert, after another status
\* the insert of the minimal record; stored tells whether the store holds
\* the page afterwards.
insert_site_page(has_url, has_title, first, second) ==
    IF ~has_url \/ ~has_title THEN NoRecord
    ELSE IF first = "accepted" THEN Record(TRUE)
    ELSE IF first = "unreachable" THEN Record(FALSE)
    ELSE IF second = "accepted" THEN Record(TRUE)
    ELSE IF second = "unreachable" THEN Record(FALSE)
    ELSE NoRecord

\* The URLs of the records of a file, the keys of its dictionary in order.
RECORD_URLS == {"https://s.t/", "https://www.s.t/a"}
Files == {urls \in SeqsUpTo(RECORD_URLS, MaxRecords) :
             \A i, j \in 1..Len(urls) : urls[i] = urls[j] => i = j}

\* One call of insert_site_page, or one run of process_json_file: file is
\* what opening and loading input_file leads to, store the URLs of
\* site_pages, added those of them this run has put there.
InitImport ==
    /\ InitIdle
    /\ call \in {[fn |-> "insert_site_page", has_url |-> has_url,
                   has_title |-> has_title, first |-> first, second |-> second] :
                     has_url \in BOOLEAN, has_title \in BOOLEAN,
                     first \in RESPONSES, second \in RESPONSES}
                \cup {[fn |-> "process_json_file", pc |-> "open", file |-> file,
                       urls |-> urls, retry_count |-> retry_count,
                       store |-> store, added |-> {}, existing_urls |-> {},
                       i |-> 1, attempt |-> 0, successful_inserts |-> 0,
                       failed_inserts |-> 0, skipped_duplicates |-> 0] :
                     file \in {"missing", "invalid", "loaded"}, urls \in Files,
                     retry_count \in 1..MaxRetries,
                     store \in SUBSET RECORD_URLS}
    /\ returned = NotReturned

CallInsertSitePage ==
    /\ call.fn = "insert_site_page"
    /\ ~returned.done
    /\ Return(insert_site_page(call.has_url, call.has_title, call.first, call.second))
    /\ UNCHANGED <<idleVars, call>>

Pair(successful_count, failed_count) ==
    [raised |-> FALSE, successful_count |-> successful_count,
     failed_count |-> failed_count]
RaisedZeroDivision == [raised |-> TRUE, successful_count |-> 0, failed_count |-> 0]

\* process_json_file up to the loop: the early returns, then
\* check_existing_urls, which answers the empty set when the query fails.
ImportOpen ==
    /\ call.fn = "process_json_file"
    /\ call.pc = "open"
    /\ IF call.file # "loaded"
       THEN /\ Return(Pair(0, 0))
            /\ call' = [call EXCEPT !.pc = "done"]
       ELSE /\ \E answered \in BOOLEAN :
                 call' = [call EXCEPT
                            !.pc = "loop",
                            !.existing_urls =
                                IF answered THEN Range(call.urls) \cap call.store ELSE {}]
            /\ UNCHANGED returned
    /\ UNCHANGED idleVars

\* The head of the loop over the URLs: a URL in existing_urls is skipped.
ImportNextUrl ==
    /\ call.fn = "process_json_file"
    /\ call.pc = "loop"
    /\ call.i <= Len(call.urls)
    /\ IF call.urls[call.i] \in call.existing_urls
       THEN call' = [call EXCEPT !.skipped_duplicates = @ + 1, !.i = @ + 1]
       ELSE call' = [call EXCEPT !.pc = "insert", !.attempt = 0]
    /\ UNCHANGED <<idleVars, returned>>

\* One attempt of the retry loop, lines 155-177. The chunks of an inserted
\* page are inserted after it under URLs of their own and are not counted.
ImportInsertAttempt ==
    /\ call.fn = "process_json_file"
    /\ call.pc = "insert"
    /\ \E first \in RESPONSES, second \in RESPONSES :
         LET url == call.urls[call.i]
             inserted_page == insert_site_page(TRUE, TRUE, first, second)
             store == IF inserted_page.stored THEN call.store \cup {url} ELSE call.store
             added == IF inserted_page.stored THEN call.added \cup {url} ELSE call.added
         IN IF ~inserted_page.is_none
            THEN call' = [call EXCEPT !.successful_inserts = @ + 1,
                                      !.existing_urls = @ \cup {url},
                                      !.store = store, !.added = added,
                                      !.i = @ + 1, !.pc = "loop"]
            ELSE IF call.attempt + 1 < call.retry_count
            THEN call' = [call EXCEPT !.attempt = @ + 1]
            ELSE call' = [call EXCEPT !.failed_inserts = @ + 1,
                                      !.i = @ + 1, !.pc = "loop"]
    /\ UNCHANGED <<idleVars, returned>>

\* The final summary, lines 238-249: the success rate is computed before the
\* return.
ImportSummary ==
    /\ call.fn = "process_json_file"
    /\ call.pc = "loop"
    /\ call.i > Len(call.urls)
    /\ LET total_urls == Len(call.urls)
       IN IF total_urls - call.skipped_duplicates = 0
          THEN Return(RaisedZeroDivision)
          ELSE Return(Pair(call.successful_inserts, call.failed_inserts))
    /\ call' = [call EXCEPT !.pc = "done"]
    /\ UNCHANGED idleVars

NextImport ==
    \/ CallInsertSitePage
    \/ ImportOpen
    \/ ImportNextUrl
    \/ ImportInsertAttempt
    \/ ImportSummary

SpecImport == InitImport /\ [][NextImport]_vars

\* ------------------------------------------------------------------ C1
\* C1: within one engine no URL is handed to the page processor more than
\* once over a crawl_many run, whatever the seeds, max_depth and the
\* interleaving of the pool workers.
C1_NeverProcessedTwice == \A u \in URLS : processed[u] <= 1

\* ------------------------------------------------------------------ C2
\* C2: in a single-threaded verify_links run each URL is handed to the page
\* processor at most once, and a URL is in the VisitedSet by the time it is
\* handed over (so a later encounter returns early, whether or not the
\* first processing produced a page).
C2_ProcessedAtMostOnce ==
    /\ \A u \in URLS : processed[u] <= 1
    /\ \A f \in Frames(Main) :
          f.pc \in {"process", "extracting", "loop"} => f.url \in visited_urls
    /\ \A u \in URLS : processed[u] > 0 => u \in visited_urls

\* A second call on a URL whose first processing failed returned empty
\* without processing it again.
C2_Witness ==
    /\ calls = 2
    /\ ret = "empty_map"
    /\ run.depth >= 0
    /\ \E u \in run.seeds : processed[u] = 1 /\ u \notin Keys(results)

\* ------------------------------------------------------------------ C3
\* The stack of a thread is a chain of links from a seed: the bottom frame is
\* a seed, each further frame was reached through a link of the page below.
ChainFromSeed(t) ==
    \A k \in 1..Len(stack[t]) :
        LET f == stack[t][k]
        IN IF k = 1 THEN f.fn = "crawl_many" \/ (f.url \in run.seeds /\ f.via = "")
           ELSE f.via = stack[t][k - 1].url

RunDone == calls > 0 /\ \A t \in Threads : stack[t] = <<>>

\* C3: every URL processed by verify_links(seed, max_depth) or
\* crawl_many(seeds, max_depth), max_depth >= 0, is at most max_depth links
\* away from a seed, and with max_depth = 0 the pages processed by a run on
\* a fresh engine are exactly the seeds.
C3_WithinDepth ==
    run.depth >= 0 =>
      /\ \A t \in Threads : ChainFromSeed(t)
      /\ \A t \in Threads : \A k \in 1..Len(stack[t]) :
            stack[t][k].pc \in {"process", "extracting"} => k - 1 <= run.depth
      /\ (run.depth = 0 /\ run.fresh) => run.pages \subseteq run.seeds
      /\ (run.depth = 0 /\ run.fresh /\ RunDone) => run.pages = run.seeds

\* ------------------------------------------------------------------ C4
\* C4: a verify_links call with max_depth < 0, or with a URL already in the
\* VisitedSet, returns the empty map and changes nothing: VisitedSet, result
\* map and domain list unchanged, no page handed to the processor, no
\* progress message.
C4_EarlyReturnNoEffect ==
    [][\A t \in Threads :
          ( /\ At(t, "verify_links", "enter")
            /\ (Top(t).depth < 0 \/ Top(t).url \in visited_urls)
            /\ stack'[t] # stack[t] )
          => ( /\ stack'[t] = Below(t)
               /\ (t = Main /\ Len(stack[t]) = 1 => ret' = "empty_map")
               /\ visited_urls' = visited_urls
               /\ results' = results
               /\ allowed_domains' = allowed_domains
               /\ processed' = processed
               /\ out'[t] = <<>> )]_vars

\* A call on an already visited seed has returned the empty map.
C4_Witness ==
    /\ ret = "empty_map"
    /\ run.depth >= 0
    /\ run.seeds \subseteq visited_urls
    /\ run.pages = {}
    /\ results # EmptyMap

\* A call with a negative max_depth has returned the empty map.
C4_WitnessNegativeDepth == ret = "empty_map" /\ run.depth < 0

\* ------------------------------------------------------------------ C5
\* C5: every key of the result map is in the AllowedDomainSet; a URL reached
\* through a link is in the AllowedDomainSet (a link to another domain is
\* never followed); and a max_depth = 1 run on a fresh engine stores only
\* seeds and in-domain pages one link away.
C5_ResultsInAllowedDomains ==
    /\ \A u \in Keys(results) : InAllowedDomainSet(u)
    /\ \A f \in AllFrames : f.via # "" => InAllowedDomainSet(f.url)
    /\ (run.fresh /\ run.depth = 1) =>
          /\ Keys(results) \subseteq run.seeds \cup {u \in run.pages : InAllowedDomainSet(u)}
          /\ \A t \in Threads : Len(stack[t]) <= 2
          /\ \A f \in AllFrames : f.via # "" => f.via \in run.seeds

\* A max_depth = 1 run has just stored its seed, whose page holds a link that
\* will be followed and a link to another domain, which was filtered out.
C5_Witness ==
    /\ run.fresh /\ run.depth = 1
    /\ Len(stack[Main]) = 1
    /\ LET f == stack[Main][1]
       IN /\ f.pc = "loop" /\ f.page.ok /\ f.page.links # <<>>
          /\ \E x \in dropped[Main] : ~InAllowedDomainSet(x)
          /\ f.url \in Keys(results)

\* ------------------------------------------------------------------ C6
InProgress == {t \in Threads : stack[t] # <<>> /\ InProcessPage(Top(t))}

\* C6: during crawl_many at most max_concurrent_requests page-processing
\* calls are in progress; the pool runs one crawl_single_url task per seed
\* on at most max_concurrent_requests threads, and everything beneath a
\* seed is on the stack of the thread that took the seed.
C6_AtMostPoolSizeInProgress ==
    /\ Cardinality(InProgress) <= pool_size
    /\ Cardinality({t \in Workers : stack[t] # <<>>}) <= pool_size
    /\ \A t \in Workers : stack[t] # <<>> =>
          /\ stack[t][1].fn = "crawl_single_url"
          /\ stack[t][1].url \in run.seeds
          /\ \A k \in 2..Len(stack[t]) : stack[t][k].fn = "verify_links"

\* Two seeds on a pool of one: a page is being processed while the other
\* seed waits in the queue.
C6_Witness ==
    /\ pool_size = 1
    /\ queue # <<>>
    /\ Cardinality(InProgress) = 1

\* Two workers of a pool of two are processing a page each.
C6_WitnessBoth == pool_size = 2 /\ Cardinality(InProgress) = 2

\* ------------------------------------------------------------------ C7
CompletionsFrom(start) ==
    {k \in 1..Len(acquired) : start <= acquired[k] /\ acquired[k] < start + WINDOW}

\* C7: in every 1-second window (from an instant up to, not including, the
\* instant one second later) at most max_concurrent_requests calls of the
\* rate limiter complete normally.
C7_RateBound ==
    \A k \in 1..Len(acquired) :
        Cardinality(CompletionsFrom(acquired[k])) <= pool_size

\* A window holds as many completions as allowed, and more calls than that
\* have completed in all.
C7_Witness ==
    /\ pool_size = 2
    /\ Len(acquired) > pool_size
    /\ \E k \in 1..Len(acquired) : Cardinality(CompletionsFrom(acquired[k])) = pool_size

\* ------------------------------------------------------------------ C8
TaskOver(job_state) == job_state.pc = "done" /\ ~job_state.bc.on

TerminalsHeld(job_state) ==
    Cardinality({k \in 1..Len(job_state.held) : job_state.held[k] \in TERMINAL})

\* C8: a job whose status is completed, error or failed keeps that status
\* in every later step, and no job takes a terminal status twice.
C8_TerminalIsFinal ==
    [][\A job_id \in JobIds :
          /\ jobs[job_id].status \in TERMINAL =>
                jobs'[job_id].status = jobs[job_id].status
          /\ TerminalsHeld(jobs'[job_id]) <= 1]_vars

\* A completed job whose task has run to its end and whose cleanup has run.
C8_Witness ==
    \E job_id \in JobIds :
        /\ jobs[job_id].status = "completed"
        /\ jobs[job_id].kind = "single"
        /\ jobs[job_id].pc = "done"
        /\ jobs[job_id].cleanup = "done"

\* ------------------------------------------------------------------ C9
HeldInOrder(job_state, a, b, c) ==
    \E i, j, k \in 1..Len(job_state.held) :
        /\ i < j /\ j < k
        /\ job_state.held[i] = a
        /\ job_state.held[j] = b
        /\ job_state.held[k] = c

\* C9: a job whose status is completed has held the statuses starting,
\* crawling and storing before, in this order, whichever path started it.
C9_CompletedAfterAllStages ==
    \A job_id \in JobIds :
        jobs[job_id].status = "completed" =>
            HeldInOrder(jobs[job_id], "starting", "crawling", "storing")

\* ----------------------------------------------------------------- C10
SevenStatuses ==
    {"pending", "starting", "crawling", "storing", "completed", "error", "failed"}

C11_SeedProcessedAndCompleted ==
    \A job_id \in JobIds :
        LET js == jobs[job_id]
        IN (/\ js.kind = "single"
            /\ ~js.use_sitemap
            /\ \E k \in 1..Len(js.held) : js.held[k] = "crawling"
            /\ TaskOver(js))
           => (js.status = "completed" /\ js.hooked >= 1 /\ js.stored >= 1)

\* ----------------------------------------------------------------- C12
\* C12: in every step the progress of a job does not decrease, and it lies
\* between 0 and 1 (0 and 100 hundredths), whatever max_pages is.
C12_ProgressMonotoneInUnit ==
    [][\A job_id \in JobIds :
          /\ jobs'[job_id].progress >= jobs[job_id].progress
          /\ jobs'[job_id].progress >= 0
          /\ jobs'[job_id].progress <= 100]_vars

\* ----------------------------------------------------------------- C13
\* C13: a job that is starting or crawling has progress at most 0.9 and a
\* completed job has progress 1.0, on both paths.
C13_ProgressOfStatus ==
    \A job_id \in JobIds :
        /\ jobs[job_id].status \in {"starting", "crawling"} => jobs[job_id].progress <= 90
        /\ jobs[job_id].status = "completed" => jobs[job_id].progress = 100

\* ----------------------------------------------------------------- C14
\* C14: once update_status has returned from setting a terminal status, the
\* cleanup of the job is scheduled (or has run), whatever subscribers did
\* during the broadcast.
C14_TerminalSchedulesCleanup ==
    \A job_id \in JobIds :
        (jobs[job_id].status \in TERMINAL /\ ~jobs[job_id].bc.on)
            => jobs[job_id].cleanup # "none"

\* ----------------------------------------------------------------- C15
\* C15: a completed job that is still tracked has its result set and a
\* results query answers with the results.
C15_CompletedHasResults ==
    \A job_id \in JobIds :
        (jobs[job_id].status = "completed" /\ jobs[job_id].tracked)
            => (jobs[job_id].result /\ get_job_results(jobs[job_id]) = "results")

\* ----------------------------------------------------------------- C16
ChunksReturned ==
    IF call.fn = "_chunk_markdown" /\ returned.done THEN returned.value ELSE <<>>

\* C16: every chunk returned has a content that is not empty and not longer
\* than max_chunk_size, unless the chunk is one split part that is itself
\* longer than max_chunk_size.
C16_ChunksNonEmptyAndBounded ==
    \A k \in 1..Len(ChunksReturned) :
        LET chunk == ChunksReturned[k]
        IN /\ chunk.content # <<>>
           /\ \/ Len(chunk.content) <= call.max_chunk_size
              \/ /\ Len(chunk.parts) = 1
                 /\ Len(chunk.parts[1]) > call.max_chunk_size

\* A chunk of one part over the size next to a chunk within the size.
C16_Witness ==
    \E j, k \in 1..Len(ChunksReturned) :
        /\ Len(ChunksReturned[j].parts) = 1
        /\ Len(ChunksReturned[j].content) > call.max_chunk_size
        /\ Len(ChunksReturned[k].content) <= call.max_chunk_size
        /\ call.max_chunk_size > 0

\* A chunk put together from several parts, as long as the size allows.
C16_WitnessJoined ==
    \E k \in 1..Len(ChunksReturned) :
        /\ Len(ChunksReturned[k].parts) >= 2
        /\ Len(ChunksReturned[k].content) = call.max_chunk_size

\* ----------------------------------------------------------------- C17
RECURSIVE Concat(_)
Concat(seqs) == IF seqs = <<>> THEN <<>> ELSE Head(seqs) \o Concat(Tail(seqs))

NonSpace(text) == SelectSeq(text, LAMBDA c : ~IsSpace(c))

ContentsInOrder == [k \in 1..Len(ChunksReturned) |-> ChunksReturned[k].content]

\* C17: the contents of the chunks, put together in id order, are the text
\* with some whitespace left out: the characters that are not whitespace
\* are the same, in the same order, and the ids count up from 0.
C17_RoundTrip ==
    (call.fn = "_chunk_markdown" /\ returned.done) =>
        /\ NonSpace(Concat(ContentsInOrder)) = NonSpace(call.markdown_text)
        /\ \A k \in 1..Len(ChunksReturned) : ChunksReturned[k].id = k - 1

\* Two chunks, a heading marker kept and a paragraph break left out.
C17_Witness ==
    /\ Len(ChunksReturned) >= 2
    /\ \E k \in 1..Len(ChunksReturned) : \E i \in 1..Len(ChunksReturned[k].content) :
          ChunksReturned[k].content[i] = "#"
    /\ Len(Concat(ContentsInOrder)) < Len(call.markdown_text)

\* ----------------------------------------------------------------- C18
Lower(c) ==
    CASE c = "S" -> "s"
      [] c = "T" -> "t"
      [] c = "W" -> "w"
      [] OTHER -> c

LowerAll(host) == [k \in 1..Len(host) |-> Lower(host[k])]

\* The labels of a host, in small letters, a leading www left out.
HostLabels(host) == IgnoreWww(SplitDots(LowerAll(host)))

\* C18: the page-level check accepts a netloc exactly when the host, small
\* and capital letters alike and a leading www. ignored, is an allowed
\* domain or a subdomain of one.
C18_DomainCheckExact ==
    (call.fn = "domain_check" /\ returned.done) =>
        (returned.value <=>
            \E k \in 1..Len(call.allowed_domains) :
                SameOrSubdomain(HostLabels(call.netloc),
                                HostLabels(StripScheme(call.allowed_domains[k]))))

\* ----------------------------------------------------------------- C19
\* C19: after the truncation, with max_pages > 0 the map holds at most
\* max_pages entries, the first ones of the map before, in their order;
\* with max_pages = 0 it is the map before.
C19_FirstMaxPages ==
    (call.fn = "limit_results" /\ returned.done) =>
        /\ call.max_pages > 0 =>
              /\ Len(returned.value) <= call.max_pages
              /\ Len(returned.value) <= Len(call.results)
              /\ Len(returned.value) = call.max_pages \/ Len(returned.value) = Len(call.results)
              /\ \A k \in 1..Len(returned.value) : returned.value[k] = call.results[k]
        /\ call.max_pages = 0 => returned.value = call.results

\* A map of more than max_pages entries has been cut.
C19_Witness ==
    /\ call.fn = "limit_results"
    /\ returned.done
    /\ call.max_pages > 0
    /\ Len(call.results) > call.max_pages + 1
    /\ Len(returned.value) = call.max_pages

\* A map has gone through with max_pages = 0.
C19_WitnessZero ==
    /\ call.fn = "limit_results"
    /\ returned.done
    /\ call.max_pages = 0
    /\ Len(returned.value) > 1

\* ----------------------------------------------------------------- C20
FetchOrParseFails(document) ==
    document.kind \in {"ConnectionError", "HTTPError", "ParseError"}

\* C20: parse_sitemap returns, it never raises; when fetching or parsing the
\* requested document fails it returns the empty list.
C20_NeverRaises ==
    (call.fn = "parse_sitemap" /\ returned.done) =>
        /\ ~returned.value.raised
        /\ FetchOrParseFails(call.web[call.sitemap_url]) => returned.value.urls = <<>>

\* The requested document is not well-formed XML and the call has returned.
C20_Witness ==
    /\ call.fn = "parse_sitemap"
    /\ returned.done
    /\ call.web[call.sitemap_url].kind = "ParseError"
    /\ returned.value.urls = <<>>

\* An index of two sitemaps, one not to be fetched, one with a URL: the
\* URL is returned.
C20_WitnessIndex ==
    /\ call.fn = "parse_sitemap"
    /\ returned.done
    /\ call.web[call.sitemap_url].kind = "sitemapindex"
    /\ \E other \in SITEMAPS :
          /\ call.web[other].kind = "urlset"
          /\ returned.value.urls = WithText(call.web[other].locs)
          /\ returned.value.urls # <<>>

\* An index that lists itself: the nesting ends in an exception, caught.
C20_WitnessCycle ==
    /\ call.fn = "parse_sitemap"
    /\ returned.done
    /\ call.web[call.sitemap_url].kind = "sitemapindex"
    /\ \E k \in 1..Len(call.web[call.sitemap_url].locs) :
          call.web[call.sitemap_url].locs[k] = call.sitemap_url

\* ----------------------------------------------------------------- C21
\* The host of a URL: its netloc without the port, in small letters.
HostOf(url) ==
    LET netloc == urlparse(url).netloc
        name == IF netloc = <<>> THEN "" ELSE Head(netloc)
    IN IF name = "SUPABASE.COM" THEN "supabase.com" ELSE name

PathOf(url) == urlparse(url).path

\* C21: get_selectors_for_url returns the CLI selectors exactly for the URLs
\* whose host is a key of the domain map and whose path contains one of that
\* domain's patterns, and the generic selectors for every other URL.
C21_SelectorsByHostAndPath ==
    (call.fn = "get_selectors_for_url" /\ returned.done) =>
        LET cli == /\ <<HostOf(call.url)>> \in DOMAIN DOMAIN_SELECTOR_MAP
                   /\ PatternInPath("/docs/reference/cli/", PathOf(call.url))
        IN returned.value = IF cli THEN SUPABASE_CLI_SELECTORS ELSE GENERIC_SELECTORS

\* ----------------------------------------------------------------- C22
\* C22: a worker whose wait_for_rate_limit finds the window full, or the
\* previous request closer than the minimum interval, waits and goes on to
\* fetch: its seed or link is not dropped and not reported as failed.
C22_SaturatedIsDelayed ==
    \A w \in Workers :
        /\ out[w] # <<"Error crawling">>
        /\ out[w] # <<"Error processing link">>

\* ----------------------------------------------------------------- C23
\* The frame fetches its page, or is about to.
Fetching(f) == f.pc \in {"process", "set_domains", "check", "extracting"}

\* The frame at position k of thread t was entered right after a
\* wait_for_rate_limit call of t: it is a crawl_single_url call, or a
\* verify_links call made by crawl_single_url.
AcquiredBefore(t, k) ==
    \/ stack[t][k].fn = "crawl_single_url"
    \/ k > 1 /\ stack[t][k - 1].fn = "crawl_single_url"

\* C23: in crawl_many every page fetch is preceded by a wait_for_rate_limit
\* call of the worker that performs it, for seeds and for every page reached
\* beneath a seed.
C23_AcquireBeforeEveryFetch ==
    \A w \in Workers : \A k \in 1..Len(stack[w]) :
        Fetching(stack[w][k]) => AcquiredBefore(w, k)

\* ----------------------------------------------------------------- C24
\* C24: during crawl_many every step of a worker that writes the result map
\* or changes visited_urls is made while the worker holds the engine's lock.
C24_MutationsUnderLock ==
    [][\A w \in Workers :
          (/\ stack'[w] # stack[w]
           /\ (results' # results \/ visited_urls' # visited_urls))
          => UnderResultsLock(Top(w))]_vars

\* ----------------------------------------------------------------- C25
\* C25: an engine made without allowed domains has its allowed_domains set
\* once, and the list never changes afterwards, also when several workers
\* of crawl_many make their first _process_page call at the same time.
C25_DomainsSetOnce ==
    [][allowed_domains.is_none \/ allowed_domains' = allowed_domains]_vars

\* ----------------------------------------------------------------- C26
\* C26: every verify_links call returns, whatever the links of the pages it
\* meets, cycles and links of a page to itself included, and whatever
\* max_depth, provided each _process_page call returns.
C26_VerifyLinksTerminates == (stack[Main] # <<>>) ~> (stack[Main] = <<>>)

\* The loop of a call beneath the first is at a link that leads back to the
\* seed of the run: a cycle.
C26_Witness ==
    /\ Len(stack[Main]) >= 2
    /\ At(Main, "verify_links", "loop")
    /\ Top(Main).page.links # <<>>
    /\ Head(Top(Main).page.links) = stack[Main][1].url

\* The loop is at a link of the page to itself.
C26_WitnessSelf ==
    /\ At(Main, "verify_links", "loop")
    /\ Top(Main).page.links # <<>>
    /\ Head(Top(Main).page.links) = Top(Main).url

\* ----------------------------------------------------------------- C27
\* The pages within k links of the pages in from.
RECURSIVE WithinHops(_, _, _)
WithinHops(web, from, k) ==
    IF k = 0 THEN from
    ELSE WithinHops(web, from \cup UNION {Range(web[n]) : n \in from}, k - 1)

\* The length of the shortest path from the seed to a page within bound
\* links of it.
Hops(web, seed, n, bound) ==
    CHOOSE h \in 0..bound :
        /\ n \in WithinHops(web, {seed}, h)
        /\ \A g \in 0..(h - 1) : n \notin WithinHops(web, {seed}, g)

PagesProcessed == {returned.value.pages[k].url : k \in 1..Len(returned.value.pages)}

\* C27: a URL is processed once, with the max_depth of its first encounter in
\* depth-first order: that is at most, and not always, what the shortest
\* path from the seed would leave, and the links of a page processed with
\* max_depth 0 are never followed.
C27_DepthOfFirstEncounter ==
    (call.fn = "verify_links" /\ returned.done) =>
        LET pages == returned.value.pages
        IN /\ \A i, j \in 1..Len(pages) : pages[i].url = pages[j].url => i = j
           /\ \A i \in 1..Len(pages) :
                 /\ pages[i].url \in WithinHops(call.web, {call.url}, call.max_depth)
                 /\ pages[i].max_depth <=
                       call.max_depth - Hops(call.web, call.url, pages[i].url, call.max_depth)
                 /\ pages[i].max_depth = 0 =>
                       \A j \in 1..Len(pages) : pages[j].via # pages[i].url
                 /\ i > 1 => \E j \in 1..(i - 1) :
                       /\ pages[j].url = pages[i].via
                       /\ pages[i].max_depth = pages[j].max_depth - 1

\* A page within max_depth links of the seed has stayed unprocessed: the
\* page that links to it was first reached with max_depth 0.
C27_Witness ==
    /\ call.fn = "verify_links"
    /\ returned.done
    /\ \E n \in WithinHops(call.web, {call.url}, call.max_depth) :
          n \notin PagesProcessed
    /\ \E i \in 1..Len(returned.value.pages) :
          LET page == returned.value.pages[i]
          IN /\ page.max_depth = 0
             /\ Hops(call.web, call.url, page.url, call.max_depth) < call.max_depth

\* ----------------------------------------------------------------- C28
\* The step is the handler of lines 148-152 catching the exception of the
\* call made for a link.
LinkRaised ==
    /\ Len(stack[Main]) >= 2
    /\ Len(stack'[Main]) < Len(stack[Main])
    /\ out'[Main] = <<"Error processing link">>

\* C28: an exception raised while verify_links processes one link of a page
\* does not abort the call on the page: the call is still in its loop with
\* the links after that one to go, its own page is still in the result map,
\* and nothing is returned to the caller by the exception.
C28_LinkExceptionIsolated ==
    [][LinkRaised =>
          LET parent == stack[Main][Len(stack[Main]) - 1]
          IN /\ stack'[Main] = SubSeq(stack[Main], 1, Len(stack[Main]) - 1)
             /\ Top(Main)' = parent
             /\ parent.pc = "loop"
             /\ results' = results
             /\ parent.page.ok => parent.url \in Keys(results')
             /\ ret' = ret]_vars

\* The exception of a link has just been caught, the page of the call is in
\* the result map and the loop has a link left to go.
C28_Witness ==
    /\ out[Main] = <<"Error processing link">>
    /\ At(Main, "verify_links", "loop")
    /\ Top(Main).page.links # <<>>
    /\ Top(Main).url \in Keys(results)

\* A call has returned its page although the call made for one of its links
\* raised before the link's page was processed, and a later link's page has
\* been stored.
C28_WitnessReturned ==
    /\ stack[Main] = <<>>
    /\ ret = "page_info"
    /\ calls = 1
    /\ \E u \in visited_urls : processed[u] = 0
    /\ Len(results) >= 2

\* ----------------------------------------------------------------- C29
\* C29: an add_log call with a message that is not empty appends one entry
\* to the log and sends one progress event with the message to every socket
\* registered for the job when it is called, also when other sockets connect
\* or disconnect during the sends; a call with an empty message appends and
\* sends nothing.
C29_OneEntryOneEventEach ==
    (returned.done /\ returned.value.fn = "add_log") =>
        IF returned.value.message = EMPTY
        THEN returned.value.appended = 0 /\ returned.value.delivered = {}
        ELSE /\ returned.value.appended = 1
             /\ returned.value.owed \subseteq returned.value.delivered

\* ----------------------------------------------------------------- C30
LogIsQuiet == jobs[1].adds = <<>> /\ jobs[1].scheduled = <<>>

\* C30: the log of a job crawled on one thread is the sequence of the
\* messages generated by the job and its hooks, each once, in the order of
\* their generation.
C30_LogIsGenerated == LogIsQuiet => jobs[1].progress_logs = jobs[1].generated

\* ----------------------------------------------------------------- C31
\* C31: a socket that connected while the job runs has been sent every line
\* of the job's log once, in log order, when its replay is over and no
\* add_log call is under way: the replay and the live events neither
\* repeat nor skip a line.
C31_ReplayThenLive ==
    \A s \in jobs[1].active_connections :
        (jobs[1].replaying[s] = 0 /\ jobs[1].adds = <<>>)
            => jobs[1].received[s] = jobs[1].progress_logs

\* ----------------------------------------------------------------- C32
\* C32: a socket the server has closed is not registered in
\* manager.active_connections any more, so that no broadcast is attempted
\* on it.
C32_ClosedIsUnregistered ==
    jobs[1].closed \cap jobs[1].active_connections = {}

\* ----------------------------------------------------------------- C33
\* C33: pages_crawled of a job equals the number of pages its hook has been
\* invoked for.
C33_PagesCrawledCountsHookCalls ==
    \A job_id \in DOMAIN jobs : jobs[job_id].pages_crawled = jobs[job_id].hooked

\* ----------------------------------------------------------------- C34
\* C34: a fetch whose extraction yields empty markdown is the last fetch of
\* the URL, and _process_page returns None for the URL.
C34_EmptyIsDroppedAtOnce ==
    (call.fn = "_process_page") =>
        \A k \in 1..Len(call.fetched) :
            call.fetched[k] = "empty"
                => /\ k = Len(call.fetched)
                   /\ returned.done => returned.value.is_none

\* ----------------------------------------------------------------- C35
\* C35: the links list of a page_info holds no URL twice.
C35_LinksDeduplicated ==
    \A f \in AllFrames :
        f.page.ok =>
            \A i, j \in 1..Len(f.page.links) :
                f.page.links[i] = f.page.links[j] => i = j

\* ----------------------------------------------------------------- C36
\* C36: link discovery keeps an anchor's netloc exactly when the page-level
\* check of _process_page accepts it, for the same allowed_domains.
C36_LinkCheckIsPageCheck ==
    (call.fn = "link_check" /\ returned.done) =>
        (returned.value <=> NetlocAllowed(call.netloc, call.allowed_domains))

\* ----------------------------------------------------------------- C37
\* The split of the text: texts at the odd places, delimiters at the even.
TextParts == IF call.fn = "_chunk_markdown" THEN ReSplit(call.markdown_text) ELSE <<>>

\* The places of the parts the loop does not skip, in order: the n-th of
\* them is the n-th part of the chunks.
KeptPlaces ==
    SelectSeq([i \in 1..Len(TextParts) |-> i], LAMBDA i : ~SkipPart(TextParts[i]))

RECURSIVE PartsUpTo(_)
PartsUpTo(k) == IF k = 0 THEN 0 ELSE PartsUpTo(k - 1) + Len(ChunksReturned[k].parts)

ChunkOfKept(n) ==
    CHOOSE k \in 1..Len(ChunksReturned) : PartsUpTo(k - 1) < n /\ n <= PartsUpTo(k)

\* C37: a delimiter that is kept (a heading marker) and the text that
\* follows it are in the same chunk.
C37_DelimiterWithWhatFollows ==
    (call.fn = "_chunk_markdown" /\ returned.done) =>
        \A n \in 1..(Len(KeptPlaces) - 1) :
            (KeptPlaces[n] % 2 = 0 /\ KeptPlaces[n + 1] = KeptPlaces[n] + 1)
                => ChunkOfKept(n) = ChunkOfKept(n + 1)

\* ----------------------------------------------------------------- C38
\* C38: the vector _get_embedding returns for a vector of n >= 1 values has
\* expected_dim values, the i-th of them the (i mod n)-th of the embedder's
\* (counting from 0): repeated in a cycle when shorter, cut when longer,
\* unchanged at expected_dim.
C38_CyclicOrTruncated ==
    (call.fn = "_get_embedding" /\ call.ok /\ call.embedding # <<>> /\ returned.done) =>
        /\ ~returned.value.is_none
        /\ Len(returned.value.vector) = expected_dim
        /\ \A i \in 0..(expected_dim - 1) :
              returned.value.vector[i + 1] =
                  call.embedding[(i % Len(call.embedding)) + 1]

\* ----------------------------------------------------------------- C39
\* C39: insert_site_page returns a record only when the store holds the
\* page afterwards, and the pages process_json_file counts as successful are
\* the pages it has put into the store.
C39_RecordOnlyWhenStored ==
    /\ (call.fn = "insert_site_page" /\ returned.done)
          => (~returned.value.is_none => returned.value.stored)
    /\ (call.fn = "process_json_file")
          => call.successful_inserts = Cardinality(call.added)

\* ----------------------------------------------------------------- C40
\* C40: a run of process_json_file that has ended has returned the pair
\* (successful_count, failed_count).
C40_ReturnsThePair ==
    (call.fn = "process_json_file" /\ returned.done) => ~returned.value.raised

====
